---------------------------- MODULE Spec2Model ----------------------------
(***************************************************************************)
(* A model of the excel-agent-tool core (src/core/excel_agent_core.py) and *)
(* of the repair tool built on it (src/tools/excel_repair_errors.py).      *)
(*                                                                         *)
(* Text is modelled as a sequence of one-character strings, so that the    *)
(* code's string operations (startswith, upper, substring search, regular  *)
(* expressions, concatenation) are computed and not assumed.               *)
(***************************************************************************)
EXTENDS Integers, Sequences, FiniteSets, TLC

(***************************************************************************)
(* Bounds of the model.                                                    *)
(***************************************************************************)
\* cells of the first sheet of an initial workbook
MaxCells == 3
\* columns of a sheet's used range (cells are laid out row-major)
NCols == 2
\* cells of the sheet of a workbook that repair starts from
MaxRepairCells == 2
\* FileLock instances that no agent owns
NLocks == 1
\* passes of the loop of FileLock.acquire before its timeout
MaxAttempts == 1
\* open calls of one ExcelAgent
MaxOpens == 2

(***************************************************************************)
(* Text helpers.                                                           *)
(***************************************************************************)
LowerChars == <<"a", "b", "c", "d", "e", "f", "g", "h", "i", "j", "k", "l", "m", "n", "o", "p", "q", "r", "s", "t", "u", "v", "w", "x", "y", "z">>
UpperChars == <<"A", "B", "C", "D", "E", "F", "G", "H", "I", "J", "K", "L", "M", "N", "O", "P", "Q", "R", "S", "T", "U", "V", "W", "X", "Y", "Z">>
DigitChars == <<"0", "1", "2", "3", "4", "5", "6", "7", "8", "9">>

Range(s) == {s[i] : i \in DOMAIN s}

\* str.upper() on one character
UpperChar(c) ==
    IF \E i \in DOMAIN LowerChars : LowerChars[i] = c
    THEN UpperChars[CHOOSE i \in DOMAIN LowerChars : LowerChars[i] = c]
    ELSE c

\* str.upper()
Upper(s) == [i \in DOMAIN s |-> UpperChar(s[i])]

\* s[i:i+len(sub)] == sub   (1-based i)
MatchAt(s, i, sub) ==
    /\ i >= 1
    /\ i + Len(sub) - 1 <= Len(s)
    /\ \A k \in 1..Len(sub) : s[i + k - 1] = sub[k]

\* sub in s
Contains(s, sub) == \E i \in 1..(Len(s) + 1) : MatchAt(s, i, sub)

\* s.startswith(sub)
StartsWith(s, sub) == MatchAt(s, 1, sub)

\* s[n:]  (0-based n, as in Python)
Drop(s, n) == IF n >= Len(s) THEN <<>> ELSE SubSeq(s, n + 1, Len(s))

(***************************************************************************)
(* FormulaErrors: the closed set of error sentinels.                       *)
(***************************************************************************)
DIV0 == <<"#", "D", "I", "V", "/", "0", "!">>
REF == <<"#", "R", "E", "F", "!">>
VALUE == <<"#", "V", "A", "L", "U", "E", "!">>
NAME == <<"#", "N", "A", "M", "E", "?">>
NULL == <<"#", "N", "U", "L", "L", "!">>
NUM == <<"#", "N", "U", "M", "!">>
NA == <<"#", "N", "/", "A">>

ERROR_VALUES == {DIV0, REF, VALUE, NAME, NULL, NUM, NA}

(***************************************************************************)
(* The workbook file.  A cell of the file holds an optional formula body   *)
(* (the <f> element, without the leading "="), the type tag of its stored  *)
(* value and the stored (cached, last-computed) value.                     *)
(***************************************************************************)
Sheet1 == <<"S", "h", "e", "e", "t", "1">>
Data == <<"D", "a", "t", "a">>

FileCell(hasF, arr, f, t, v) == [hasF |-> hasF, arr |-> arr, f |-> f, t |-> t, v |-> v]

Const10 == FileCell(FALSE, FALSE, <<>>, "n", <<"1", "0">>)
Const20 == FileCell(FALSE, FALSE, <<>>, "n", <<"2", "0">>)
\* =A1/A2, last computed as #DIV/0!
FDiv0 == FileCell(TRUE, FALSE, <<"A", "1", "/", "A", "2">>, "e", DIV0)
\* =SUM(A1:A2), last computed as 30
FSum == FileCell(TRUE, FALSE, <<"S", "U", "M", "(", "A", "1", ":", "A", "2", ")">>, "n", <<"3", "0">>)
\* =Nope!A1, last computed as #REF!
FRef == FileCell(TRUE, FALSE, <<"N", "o", "p", "e", "!", "A", "1">>, "e", REF)
\* =iferror(A1/A2,0), last computed as 0
FWrapped == FileCell(TRUE, FALSE, <<"i", "f", "e", "r", "r", "o", "r", "(", "A", "1", "/", "A", "2", ",", "0", ")">>, "n", <<"0">>)
\* an array formula {=A1/A2}, last computed as #DIV/0!
FArray == FileCell(TRUE, TRUE, <<"A", "1", "/", "A", "2">>, "e", DIV0)
\* the literal error value #DIV/0! typed into a cell (no formula)
ErrConst == FileCell(FALSE, FALSE, <<>>, "e", DIV0)

CellPool == {Const10, Const20, FDiv0, FSum, FRef, FWrapped, FArray, ErrConst}

MissingFile == [st |-> "missing", sheets |-> <<>>]
CorruptFile == [st |-> "corrupt", sheets |-> <<>>]
WorkbookFile(sheets) == [st |-> "ok", sheets |-> sheets]

\* The workbooks a behaviour may start from: one sheet of MaxCells cells,
\* optionally followed by a second sheet holding one cell.
TwoSheetFiles ==
    {WorkbookFile(<<[name |-> Sheet1, cells |-> cs], [name |-> Data, cells |-> <<c>>]>>) :
        cs \in [1..MaxCells -> {Const10, FDiv0}], c \in {FDiv0, FSum}}

InitialFiles ==
    {MissingFile, CorruptFile}
    \cup {WorkbookFile(<<[name |-> Sheet1, cells |-> cs]>>) : cs \in [1..MaxCells -> CellPool]}
    \cup TwoSheetFiles

(***************************************************************************)
(* openpyxl's view of a file.                                              *)
(***************************************************************************)
\* cell.coordinate of the i-th cell of a sheet in row-major order
Coordinate(i) ==
    <<UpperChars[((i - 1) % NCols) + 1], DigitChars[((i - 1) \div NCols) + 2]>>

\* str(ArrayFormula object): an object repr, never a formula text
ObjectRepr == <<"<", "A", "r", "r", "a", "y", "F", "o", "r", "m", "u", "l", "a", ">">>

\* One cell as load_workbook(filepath, data_only=False) yields it: a cell with
\* a formula has data_type 'f' and its value is "=" + the formula body; the
\* stored value of a formula cell is not read.
LoadCell(c) ==
    IF c.hasF
    THEN [data_type |-> "f", value |-> <<"=">> \o c.f, is_str |-> ~c.arr]
    ELSE [data_type |-> c.t, value |-> c.v, is_str |-> c.t # "n"]

\* load_workbook succeeds only on a readable workbook file
CanLoad(f) == f.st = "ok"

load_workbook(f) ==
    [s \in DOMAIN f.sheets |->
        [name |-> f.sheets[s].name,
         cells |-> [i \in DOMAIN f.sheets[s].cells |-> LoadCell(f.sheets[s].cells[i])]]]

\* One cell as wb.save writes it: a formula cell is written as its formula
\* body with no stored value.
SaveCell(m) ==
    IF m.data_type = "f"
    THEN FileCell(TRUE, ~m.is_str, Drop(m.value, 1), "n", <<>>)
    ELSE FileCell(FALSE, FALSE, <<>>, m.data_type, m.value)

SaveWorkbook(wb) ==
    WorkbookFile([s \in DOMAIN wb |->
        [name |-> wb[s].name,
         cells |-> [i \in DOMAIN wb[s].cells |-> SaveCell(wb[s].cells[i])]]])

(***************************************************************************)
(* The validation engine.                                                  *)
(***************************************************************************)
\* The cells of a loaded workbook in visiting order: sheets in wb.sheetnames
\* order, the cells of a sheet as ws.iter_rows() yields them.
RECURSIVE VisitFrom(_, _)
VisitFrom(wb, s) ==
    IF s > Len(wb) THEN <<>>
    ELSE [i \in DOMAIN wb[s].cells |->
             [sheet_name |-> wb[s].name, coordinate |-> Coordinate(i), cell |-> wb[s].cells[i]]]
         \o VisitFrom(wb, s + 1)

VisitOrder(wb) == VisitFrom(wb, 1)

\* the cells the scan loop visits, in the order it visits them
ScanVisits(f) ==
    IF CanLoad(f)
    THEN [i \in DOMAIN VisitOrder(load_workbook(f)) |->
             [sheet_name |-> VisitOrder(load_workbook(f))[i].sheet_name,
              coordinate |-> VisitOrder(load_workbook(f))[i].coordinate]]
    ELSE <<>>

\* str(cell.value) if cell.value else ""
CellText(cell) ==
    IF cell.value = <<>> THEN <<>>
    ELSE IF cell.data_type = "f" /\ ~cell.is_str THEN ObjectRepr
    ELSE cell.value

\* f"{sheet_name}!{cell.coordinate}"
Location(item) == item.sheet_name \o <<"!">> \o item.coordinate

\* a scan loop body that counts every visited cell as a formula
ScanCellCountsAll(acc, item) == [acc EXCEPT !.total_formulas = @ + 1]

\* a scan loop body that reports every formula cell as #DIV/0!
ScanCellFlagsAll(acc, item) ==
    IF item.cell.data_type = "f"
    THEN LET old == IF DIV0 \in DOMAIN acc.error_summary
                    THEN acc.error_summary[DIV0]
                    ELSE [count |-> 0, locations |-> <<>>]
         IN  [total_formulas |-> acc.total_formulas + 1,
              error_summary |->
                  [k \in DOMAIN acc.error_summary \cup {DIV0} |->
                      IF k = DIV0
                      THEN [count |-> old.count + 1,
                            locations |-> Append(old.locations, Location(item))]
                      ELSE acc.error_summary[k]]]
    ELSE acc

\* the body of the scan loop for one visited cell
ScanCell(acc, item) ==
    IF item.cell.data_type = "f"
    THEN LET cell_value == CellText(item.cell)
             old == IF cell_value \in DOMAIN acc.error_summary
                    THEN acc.error_summary[cell_value]
                    ELSE [count |-> 0, locations |-> <<>>]
         IN  IF cell_value \in ERROR_VALUES
             THEN [total_formulas |-> acc.total_formulas + 1,
                   error_summary |->
                       [k \in DOMAIN acc.error_summary \cup {cell_value} |->
                           IF k = cell_value
                           THEN [count |-> old.count + 1,
                                 locations |-> Append(old.locations, Location(item))]
                           ELSE acc.error_summary[k]]]
             ELSE [acc EXCEPT !.total_formulas = @ + 1]
    ELSE acc

RECURSIVE ScanLoop(_, _, _)
ScanLoop(acc, items, i) ==
    IF i > Len(items) THEN acc
    ELSE ScanLoop(ScanCell(acc, items[i]), items, i + 1)

RECURSIVE SumCounts(_, _)
SumCounts(summary, keys) ==
    IF keys = {} THEN 0
    ELSE LET k == CHOOSE x \in keys : TRUE
         IN  summary[k].count + SumCounts(summary, keys \ {k})

ValidationReport(status, total_errors, total_formulas, error_summary, validation_method) ==
    [status |-> status, total_errors |-> total_errors, total_formulas |-> total_formulas,
     error_summary |-> error_summary, validation_method |-> validation_method]

EmptySummary == [k \in {} |-> [count |-> 0, locations |-> <<>>]]

\* error_summary of a scan that could not read the workbook
ErrorKey == <<"e", "r", "r", "o", "r">>
FailureSummary == [k \in {ErrorKey} |-> [message |-> "load failed"]]

\* a scan that reports an unreadable workbook as clean
validate_workbook_python_Swallow(f) ==
    ValidationReport("success", 0, 0, EmptySummary, "python_fallback")

validate_workbook_python(f) ==
    IF ~CanLoad(f)
    THEN ValidationReport("error", 0, 0, FailureSummary, "python_fallback")
    ELSE LET acc == ScanLoop([total_formulas |-> 0, error_summary |-> EmptySummary],
                             VisitOrder(load_workbook(f)), 1)
         IN  IF DOMAIN acc.error_summary # {}
             THEN ValidationReport("errors_found",
                                   SumCounts(acc.error_summary, DOMAIN acc.error_summary),
                                   acc.total_formulas, acc.error_summary, "python_fallback")
             ELSE ValidationReport("success", 0, acc.total_formulas, EmptySummary,
                                   "python_fallback")

Methods == {"auto", "libreoffice", "python", "excel"}

\* validate_workbook: the outcome is a report or a raised exception
validate_workbook(f, method, libreoffice) ==
    IF f.st = "missing" THEN [raised |-> "FileNotFoundError", report |-> <<>>]
    ELSE LET m == IF method = "auto"
                  THEN (IF libreoffice THEN "libreoffice" ELSE "python")
                  ELSE method
         IN  IF m \in {"libreoffice", "python"}
             THEN [raised |-> "none", report |-> <<validate_workbook_python(f)>>]
             ELSE [raised |-> "ValueError", report |-> <<>>]

\* ValidationReport.has_errors
has_errors(report) == report.total_errors > 0

(***************************************************************************)
(* Error repair.                                                           *)
(***************************************************************************)
IFERROR == <<"I", "F", "E", "R", "R", "O", "R">>

\* a repair loop guard that does not look for an existing wrapper
NeedsWrapAgain(cell) == cell.data_type = "f" /\ cell.is_str

\* the guard of the repair loop for one cell
NeedsWrap(cell) ==
    /\ cell.data_type = "f"
    /\ cell.is_str
    /\ ~Contains(Upper(cell.value), IFERROR)

\* f'=IFERROR({formula}, 0)' after stripping a leading '='
WrapFormula(formula) ==
    <<"=", "I", "F", "E", "R", "R", "O", "R", "(">>
    \o (IF StartsWith(formula, <<"=">>) THEN Drop(formula, 1) ELSE formula)
    \o <<",", " ", "0", ")">>

\* the body of the repair loop for one cell
RepairCell(cell) ==
    IF NeedsWrap(cell) THEN [cell EXCEPT !.value = WrapFormula(cell.value)] ELSE cell

\* the workbook after the repair loop
RepairLoop(wb) ==
    [s \in DOMAIN wb |->
        [name |-> wb[s].name,
         cells |-> [i \in DOMAIN wb[s].cells |-> RepairCell(wb[s].cells[i])]]]

\* div0_count: the cells the repair loop rewrote
RECURSIVE CountWraps(_, _)
CountWraps(items, i) ==
    IF i > Len(items) THEN 0
    ELSE (IF NeedsWrap(items[i].cell) THEN 1 ELSE 0) + CountWraps(items, i + 1)

\* error_types: None (all) or a list of sentinels
AllTypes == [all |-> TRUE, types |-> {}]
OnlyTypes(ts) == [all |-> FALSE, types |-> ts]
ErrorTypeChoices == {AllTypes, OnlyTypes({DIV0}), OnlyTypes({REF})}

\* error_types is None or "#DIV/0!" in error_types
SelectsDiv0(error_types) == error_types.all \/ DIV0 \in error_types.types

\* a repair loop that walks the sheets from the last to the first
RECURSIVE RepairVisitsBackwards(_, _)
RepairVisitsBackwards(wb, s) ==
    IF s > Len(wb) THEN <<>>
    ELSE RepairVisitsBackwards(wb, s + 1)
         \o [i \in DOMAIN wb[s].cells |->
                [sheet_name |-> wb[s].name, coordinate |-> Coordinate(i)]]

\* the cells the repair loop visits, in the order it visits them: for each
\* sheet_name in wb.sheetnames, for each row of ws.iter_rows(), each cell
RECURSIVE RepairVisitsFrom(_, _)
RepairVisitsFrom(wb, s) ==
    IF s > Len(wb) THEN <<>>
    ELSE [i \in DOMAIN wb[s].cells |->
             [sheet_name |-> wb[s].name, coordinate |-> Coordinate(i)]]
         \o RepairVisitsFrom(wb, s + 1)

\* the repair loop runs only inside the "#DIV/0!" block
RepairVisits(error_types, wb) ==
    IF SelectsDiv0(error_types) THEN RepairVisitsFrom(wb, 1) ELSE <<>>

\* backup_path: the sibling path carrying the timestamp of the call
BackupPath(now) == now

NoDetails == [k \in {} |-> [attempted |-> 0, successful |-> 0, method |-> "IFERROR wrapper"]]

\* results as repair_errors initialises it
InitialResults(backup_file) ==
    [repairs_attempted |-> 0, repairs_successful |-> 0, backup_file |-> backup_file,
     details |-> NoDetails, error |-> "none"]

\* results after the "#DIV/0!" block of repair_errors
ResultsAfterLoop(results, error_types, wb) ==
    IF SelectsDiv0(error_types)
    THEN LET n == CountWraps(VisitOrder(wb), 1)
         IN  [results EXCEPT
                 !.details = [k \in {DIV0} |->
                                 [attempted |-> n, successful |-> n, method |-> "IFERROR wrapper"]],
                 !.repairs_attempted = @ + n,
                 !.repairs_successful = @ + n]
    ELSE results

\* the in-memory workbook after the "#DIV/0!" block of repair_errors
WorkbookAfterLoop(error_types, wb) ==
    IF SelectsDiv0(error_types) THEN RepairLoop(wb) ELSE wb

(***************************************************************************)
(* Formula security and validation.                                        *)
(***************************************************************************)
MAX_FORMULA_LENGTH == 8000
MAX_FORMULA_NESTING == 64
EXCEL_MAX_ROWS == 1048576
EXCEL_MAX_COLS == 16384

\* \s and \w of Python's re, on the characters the model uses
SpaceChars == {" ", "\t", "\n", "\r"}
WordChars == Range(LowerChars) \cup Range(UpperChars) \cup Range(DigitChars) \cup {"_"}

IsSpace(c) == c \in SpaceChars
IsWord(c) == c \in WordChars

\* re.match(sub, s[i:], re.IGNORECASE) for a literal sub in capitals
MatchAtIgnoreCase(s, i, sub) ==
    /\ i + Len(sub) - 1 <= Len(s)
    /\ \A k \in 1..Len(sub) : UpperChar(s[i + k - 1]) = sub[k]

\* the search for a function call without re.IGNORECASE
SearchCallCaseSensitive(s, name) ==
    \E i \in 1..Len(s) :
        /\ MatchAt(s, i, name)
        /\ \E j \in (i + Len(name))..Len(s) :
               /\ s[j] = "("
               /\ \A k \in (i + Len(name))..(j - 1) : IsSpace(s[k])

\* re.search(NAME\s*\(, s, re.IGNORECASE)
SearchCall(s, name) ==
    \E i \in 1..Len(s) :
        /\ MatchAtIgnoreCase(s, i, name)
        /\ \E j \in (i + Len(name))..Len(s) :
               /\ s[j] = "("
               /\ \A k \in (i + Len(name))..(j - 1) : IsSpace(s[k])

\* re.search(r'\[[\w\s]+\.xl', s, re.IGNORECASE)
SearchExternal(s) ==
    \E i \in 1..Len(s) :
        /\ s[i] = "["
        /\ \E j \in (i + 2)..Len(s) :
               /\ \A k \in (i + 1)..(j - 1) : IsWord(s[k]) \/ IsSpace(s[k])
               /\ MatchAtIgnoreCase(s, j, <<".", "X", "L">>)

\* re.search(r'INDIRECT\s*\(.*HYPERLINK', s, re.IGNORECASE)
SearchIndirectHyperlink(s) ==
    \E i \in 1..Len(s) :
        /\ MatchAtIgnoreCase(s, i, <<"I", "N", "D", "I", "R", "E", "C", "T">>)
        /\ \E j \in (i + 8)..Len(s) :
               /\ s[j] = "("
               /\ \A k \in (i + 8)..(j - 1) : IsSpace(s[k])
               /\ \E m \in (j + 1)..Len(s) :
                      /\ MatchAtIgnoreCase(s, m, <<"H", "Y", "P", "E", "R", "L", "I", "N", "K">>)
                      /\ \A k \in (j + 1)..(m - 1) : s[k] # "\n"

\* s.count(c)
Count(s, c) == Cardinality({i \in DOMAIN s : s[i] = c})

Abs(n) == IF n < 0 THEN 0 - n ELSE n

Warning(text, n) == [text |-> text, n |-> n]

\* the warnings of one group of checks, in order
WhenWarn(cond, w) == IF cond THEN <<w>> ELSE <<>>

\* a sanitizer that puts '=' before every text
sanitize_formula_AlwaysPrefix(formula, allow_external) ==
    [formula |-> <<"=">> \o formula, warnings |-> <<>>]

\* sanitize_formula: the normalised formula and the list of warnings
sanitize_formula(formula, allow_external) ==
    LET f == IF StartsWith(formula, <<"=">>) THEN formula ELSE <<"=">> \o formula
        nesting == Count(f, "(") - Count(f, ")")
    IN  [formula |-> f,
         warnings |->
             WhenWarn(SearchCall(f, <<"W", "E", "B", "S", "E", "R", "V", "I", "C", "E">>),
                      Warning("WEBSERVICE function (network access)", 0))
             \o WhenWarn(SearchCall(f, <<"H", "Y", "P", "E", "R", "L", "I", "N", "K">>),
                         Warning("HYPERLINK function (potential phishing)", 0))
             \o WhenWarn(SearchCall(f, <<"C", "A", "L", "L">>),
                         Warning("CALL function (external DLL execution)", 0))
             \o WhenWarn(SearchExternal(f), Warning("External workbook reference", 0))
             \o WhenWarn(SearchIndirectHyperlink(f),
                         Warning("INDIRECT+HYPERLINK combination (security risk)", 0))
             \o WhenWarn(Len(f) > MAX_FORMULA_LENGTH,
                         Warning("Formula exceeds recommended length", Len(f)))
             \o WhenWarn(Abs(nesting) > MAX_FORMULA_NESTING,
                         Warning("Formula nesting depth suspicious", nesting))]

\* the end of the longest run of \w characters that starts at i
RunEnd(s, i) ==
    CHOOSE e \in i..Len(s) :
        /\ \A k \in i..e : IsWord(s[k])
        /\ e = Len(s) \/ ~IsWord(s[e + 1])

\* the closing quote of a quoted name that opens at i, or 0
NextQuote(s, i) ==
    IF \E k \in (i + 1)..Len(s) : s[k] = "'"
    THEN CHOOSE k \in (i + 1)..Len(s) : s[k] = "'" /\ \A m \in (i + 1)..(k - 1) : s[m] # "'"
    ELSE 0

\* re.findall(r"'([^']+)'!", s): leftmost matches, none overlapping
RECURSIVE FindQuoted(_, _)
FindQuoted(s, i) ==
    IF i > Len(s) THEN <<>>
    ELSE LET k == IF s[i] = "'" THEN NextQuote(s, i) ELSE 0
         IN  IF k > i + 1 /\ k + 1 <= Len(s) /\ s[k + 1] = "!"
             THEN <<SubSeq(s, i + 1, k - 1)>> \o FindQuoted(s, k + 2)
             ELSE FindQuoted(s, i + 1)

\* re.findall(r"([A-Za-z0-9_]+)!", s)
RECURSIVE FindBare(_, _)
FindBare(s, i) ==
    IF i > Len(s) THEN <<>>
    ELSE IF IsWord(s[i]) /\ RunEnd(s, i) + 1 <= Len(s) /\ s[RunEnd(s, i) + 1] = "!"
         THEN <<SubSeq(s, i, RunEnd(s, i))>> \o FindBare(s, RunEnd(s, i) + 2)
         ELSE FindBare(s, i + 1)

\* sheet references without the quoted names
SheetRefsBareOnly(formula) == Range(FindBare(formula, 1))

\* sheet_refs after list(set(sheet_refs))
SheetRefs(formula) == Range(FindQuoted(formula, 1)) \cup Range(FindBare(formula, 1))

RefResult(valid, text, sheet) == [valid |-> valid, text |-> text, sheet |-> sheet]

\* validate_formula_references: the results the call may return.  The loop
\* runs over list(set(sheet_refs)), whose order is not determined, so the
\* missing sheet the message names is any of the missing ones.
validate_formula_references(formula, existing_sheets) ==
    IF formula = <<>>
    THEN {RefResult(FALSE, "Formula must be a non-empty string", <<>>)}
    ELSE LET missing == {r \in SheetRefs(formula) : r \notin Range(existing_sheets)}
         IN  IF missing = {}
             THEN {RefResult(TRUE, "None", <<>>)}
             ELSE {RefResult(FALSE, "Referenced sheet does not exist", r) : r \in missing}

(***************************************************************************)
(* The formulas and sheet lists the formula operations are applied to.     *)
(***************************************************************************)
\* length of the run of "(" in the deeply nested formula
NestingRun == 65

MySheet == <<"M", "y", " ", "S", "h", "e", "e", "t">>
Nope == <<"N", "o", "p", "e">>
CellA1 == <<"A", "1">>
CellB2 == <<"B", "2">>

\* SUM(A1:A10)
F_Sum == <<"S", "U", "M", "(", "A", "1", ":", "A", "1", "0", ")">>
\* =Sheet1!A1+Data!B2
F_Cross == <<"=", "S", "h", "e", "e", "t", "1", "!", "A", "1", "+", "D", "a", "t", "a", "!", "B", "2">>
\* ='My Sheet'!A1
F_Quoted == <<"=", "'", "M", "y", " ", "S", "h", "e", "e", "t", "'", "!", "A", "1">>
\* =WEBSERVICE("http://x")
F_Web == <<"=", "W", "E", "B", "S", "E", "R", "V", "I", "C", "E", "(", "\"", "h", "t", "t", "p", ":", "/", "/", "x", "\"", ")">>
\* =hyperlink (Nope!A1)
F_LinkNope == <<"=", "h", "y", "p", "e", "r", "l", "i", "n", "k", " ", "(", "N", "o", "p", "e", "!", "A", "1", ")">>
\* =INDIRECT(HYPERLINK(A1))
F_Indirect == <<"=", "I", "N", "D", "I", "R", "E", "C", "T", "(", "H", "Y", "P", "E", "R", "L", "I", "N", "K", "(", "A", "1", ")", ")">>
\* =[b.xlsx]Data!A1
F_External == <<"=", "[", "b", ".", "x", "l", "s", "x", "]", "D", "a", "t", "a", "!", "A", "1">>
\* =CALL(1)
F_Call == <<"=", "C", "A", "L", "L", "(", "1", ")">>
\* =A1&"x!"
F_Literal == <<"=", "A", "1", "&", "\"", "x", "!", "\"">>
\* =Nope!A1+Data!B2
F_TwoMissing == <<"=", "N", "o", "p", "e", "!", "A", "1", "+", "D", "a", "t", "a", "!", "B", "2">>
\* =((((...  with NestingRun opening parentheses
F_Nested == <<"=">> \o [i \in 1..NestingRun |-> "("]
\* the empty text
F_Empty == <<>>

Formulas ==
    {F_Sum, F_Cross, F_Quoted, F_Web, F_LinkNope, F_Indirect, F_External, F_Call,
     F_Literal, F_TwoMissing, F_Nested, F_Empty}

SheetLists == {<<Sheet1>>, <<Sheet1, Data>>, <<Sheet1, MySheet>>, <<Data, Nope>>, <<>>}

(***************************************************************************)
(* ExcelAgent: the loaded workbook and add_formula.                        *)
(***************************************************************************)
STYLE_FORMULA == "FinancialFormula"

AgentCell(value, style) == [value |-> value, style |-> style]

\* the workbook of an agent: wb.sheetnames and the cells that hold a value
AgentWorkbook(sheetnames) ==
    [sheetnames |-> sheetnames,
     cells |-> [k \in {<<sheetnames[1], CellB2>>} |-> AgentCell(<<"1", "0">>, "Normal")]]

\* set_cell_value: the cell of an existing sheet takes the value and style
set_cell_value(wb, sheet, cell, value, style) ==
    [wb EXCEPT !.cells = [k \in DOMAIN wb.cells \cup {<<sheet, cell>>} |->
                             IF k = <<sheet, cell>> THEN AgentCell(value, style)
                             ELSE wb.cells[k]]]

Outcome(raised, warnings, ref) == [raised |-> raised, warnings |-> warnings, ref |-> ref]

NoRef == RefResult(TRUE, "None", <<>>)

\* add_formula naming only the first warning in its SecurityError
add_formula_FirstWarning(wb, sheet, cell, formula, validate_refs, allow_external, ref) ==
    LET san == sanitize_formula(formula, allow_external)
    IN  IF san.warnings # <<>> /\ ~allow_external
        THEN [wb |-> wb, outcome |-> Outcome("SecurityError", <<san.warnings[1]>>, NoRef)]
        ELSE IF validate_refs /\ ~ref.valid
        THEN [wb |-> wb, outcome |-> Outcome("FormulaError", <<>>, ref)]
        ELSE IF sheet \notin Range(wb.sheetnames)
        THEN [wb |-> wb, outcome |-> Outcome("KeyError", <<>>, NoRef)]
        ELSE [wb |-> set_cell_value(wb, sheet, cell, san.formula, STYLE_FORMULA),
              outcome |-> Outcome("none", <<>>, NoRef)]

\* add_formula with the reference check ahead of the sanitizer check
add_formula_RefsFirst(wb, sheet, cell, formula, validate_refs, allow_external, ref) ==
    LET san == sanitize_formula(formula, allow_external)
    IN  IF validate_refs /\ ~ref.valid
        THEN [wb |-> wb, outcome |-> Outcome("FormulaError", <<>>, ref)]
        ELSE IF san.warnings # <<>> /\ ~allow_external
        THEN [wb |-> wb, outcome |-> Outcome("SecurityError", san.warnings, NoRef)]
        ELSE IF sheet \notin Range(wb.sheetnames)
        THEN [wb |-> wb, outcome |-> Outcome("KeyError", <<>>, NoRef)]
        ELSE [wb |-> set_cell_value(wb, sheet, cell, san.formula, STYLE_FORMULA),
              outcome |-> Outcome("none", <<>>, NoRef)]

\* add_formula: the workbook after the call and what the call raised; ref
\* is the result validate_formula_references gave.  The call returns None:
\* an Outcome carries warnings only inside a SecurityError.
add_formula(wb, sheet, cell, formula, validate_refs, allow_external, ref) ==
    LET san == sanitize_formula(formula, allow_external)
    IN  IF san.warnings # <<>> /\ ~allow_external
        THEN [wb |-> wb, outcome |-> Outcome("SecurityError", san.warnings, NoRef)]
        ELSE IF validate_refs /\ ~ref.valid
        THEN [wb |-> wb, outcome |-> Outcome("FormulaError", <<>>, ref)]
        ELSE IF sheet \notin Range(wb.sheetnames)
        THEN [wb |-> wb, outcome |-> Outcome("KeyError", <<>>, NoRef)]
        ELSE [wb |-> set_cell_value(wb, sheet, cell, san.formula, STYLE_FORMULA),
              outcome |-> Outcome("none", <<>>, NoRef)]

(***************************************************************************)
(* State.                                                                  *)
(***************************************************************************)
VARIABLES
    file,        \* the workbook file at filepath
    backups,     \* the backup files beside it: backup path -> content
    clock,       \* datetime.now(), in seconds
    pc,          \* position of the running call: "idle", "load", "save", "return"
    frame,       \* arguments and locals of the running repair_errors call
    last,        \* error_types and outcome of the latest repair_errors call that returned
    toolResult,  \* what the latest repair_workbook_errors call returned or raised
    scan,        \* what the latest validate_workbook call returned or raised
    agent,       \* the workbook an ExcelAgent holds (self.wb)
    call,        \* the latest add_formula call: arguments and outcome
    refCall,     \* a validate_formula_references call: arguments and result
    lockfile,    \* the sentinel file beside the workbook: 0, or the FileLock that created it
    locks,       \* the FileLock instances: acquired, and the position of a running acquire
    agents,      \* the ExcelAgent with-blocks: position, self._lock, self.wb
    addr,        \* a call of one of the address functions: arguments and result
    textCall,    \* a call of sanitize_formula or sanitize_sheet_name: arguments and result
    reportCall,  \* a validate_formulas call: the report object and the output
    rangeCall    \* a call of apply_range_formula or format_range: arguments and result

vars ==
    <<file, backups, clock, pc, frame, last, toolResult, scan, agent, call, refCall,
      lockfile, locks, agents, addr, textCall, reportCall, rangeCall>>

fileVars == <<file, backups, clock, pc, frame, last, toolResult, scan>>

formulaVars == <<agent, call, refCall>>

lockVars == <<lockfile, locks, agents>>

callVars == <<textCall, reportCall, rangeCall>>

NoTextCall ==
    [done |-> FALSE, op |-> "none", text |-> <<>>, allow_external |-> FALSE,
     out |-> <<>>, warnings |-> <<>>]

NoReportCall ==
    [done |-> FALSE, detailed |-> FALSE, raised |-> "none", built |-> <<>>,
     report |-> <<>>, result |-> <<>>]

NoRangeCall ==
    [done |-> FALSE, op |-> "none", sheet |-> <<>>, range_ref |-> <<>>, arg |-> <<>>,
     raised |-> "none", count |-> 0, before |-> <<>>, after |-> <<>>]

InitCalls ==
    /\ textCall = NoTextCall
    /\ reportCall = NoReportCall
    /\ rangeCall = NoRangeCall

NoBackups == [p \in {} |-> MissingFile]
NoWorkbook == <<>>

NoFrame ==
    [error_types |-> AllTypes, backup |-> FALSE, before |-> MissingFile,
     wb |-> NoWorkbook, visited |-> <<>>, results |-> InitialResults(<<>>)]

\* the record kept of a repair_errors call that returned: its error_types
\* and the results["error"] it returned
Run(error_types, error) == [ran |-> TRUE, error_types |-> error_types, error |-> error]

NoRun == [Run(AllTypes, "none") EXCEPT !.ran = FALSE]

NoToolResult ==
    [status |-> "none", raised |-> "none", exit_code |-> 0, repaired |-> FALSE,
     post |-> <<>>, remaining_errors |-> <<>>]

NoScan == [raised |-> "none", report |-> <<>>, method |-> "none", visited |-> <<>>]

NoCall ==
    [done |-> FALSE, sheet |-> <<>>, cell |-> <<>>, formula |-> <<>>, validate_refs |-> FALSE,
     allow_external |-> FALSE, before |-> AgentWorkbook(<<Sheet1>>),
     outcome |-> Outcome("none", <<>>, NoRef)]

NoRefCall == [done |-> FALSE, formula |-> <<>>, sheets |-> <<>>, result |-> NoRef]

\* the workbooks the repair behaviours start from
RepairPool == {Const10, FDiv0, FSum, FRef, FWrapped}
RepairFiles ==
    {MissingFile, CorruptFile}
    \cup {WorkbookFile(<<[name |-> Sheet1, cells |-> cs]>>) : cs \in [1..MaxRepairCells -> RepairPool]}

InitRepair ==
    /\ backups = NoBackups
    /\ clock = 0
    /\ pc = "idle"
    /\ frame = NoFrame
    /\ last = NoRun
    /\ toolResult = NoToolResult
    /\ scan = NoScan

NoLocks == <<>>

NoAgents == <<>>

AddrResult(raised, row, col, text, start, end) ==
    [raised |-> raised, row |-> row, col |-> col, text |-> text, start |-> start, end |-> end]

NoAddr ==
    [done |-> FALSE, op |-> "none", text |-> <<>>, n |-> 0,
     result |-> AddrResult("none", 0, 0, <<>>, <<>>, <<>>)]

InitFile ==
    /\ InitRepair
    /\ lockfile = 0
    /\ locks = NoLocks
    /\ agents = NoAgents
    /\ addr = NoAddr
    /\ InitCalls

InitAgent ==
    /\ agent = AgentWorkbook(<<Sheet1>>)
    /\ call = NoCall
    /\ refCall = NoRefCall

(***************************************************************************)
(* validate_workbook as the validation tool calls it.                      *)
(***************************************************************************)
Validate ==
    /\ pc = "idle"
    /\ \E method \in Methods, libreoffice \in BOOLEAN :
           scan' = [raised |-> validate_workbook(file, method, libreoffice).raised,
                    report |-> validate_workbook(file, method, libreoffice).report,
                    method |-> method,
                    visited |-> IF validate_workbook(file, method, libreoffice).raised = "none"
                                THEN ScanVisits(file) ELSE <<>>]
    /\ UNCHANGED <<file, backups, clock, pc, frame, last, toolResult, agent, call, refCall, lockVars, addr, callVars>>

(***************************************************************************)
(* repair_workbook_errors (src/tools/excel_repair_errors.py), the call of  *)
(* repair_errors inside it in the order of its statements (the backup      *)
(* copy, the load and the repair loop, the save), and the exit code main   *)
(* derives from the result.                                                *)
(***************************************************************************)
ExitCode(status) == IF status \in {"success", "dry_run"} THEN 0 ELSE 1

\* main's handler of an exception
Raised(exc) ==
    [NoToolResult EXCEPT !.status = "error", !.raised = exc, !.exit_code = 1]

\* a return before repair_errors is called
Returned(status) ==
    [NoToolResult EXCEPT !.status = status, !.exit_code = ExitCode(status)]

\* repair_errors entered without the backup copy being made
RepairEnterNoCopy(error_types, backup, copyFails) ==
    /\ frame' = [error_types |-> error_types, backup |-> backup,
                 before |-> file, wb |-> NoWorkbook, visited |-> <<>>,
                 results |-> InitialResults(IF backup THEN <<BackupPath(clock)>> ELSE <<>>)]
    /\ pc' = "load"
    /\ toolResult' = NoToolResult
    /\ UNCHANGED <<file, backups, last>>

\* repair_errors lines 607-619: the backup copy, then results.  shutil.copy2
\* raises when the copy cannot be written; the exception leaves
\* repair_errors and repair_workbook_errors.
RepairEnter(error_types, backup, copyFails) ==
    IF backup /\ copyFails
    THEN /\ toolResult' = Raised("OSError")
         /\ UNCHANGED <<file, backups, pc, frame, last>>
    ELSE /\ backups' = IF backup
                       THEN [p \in DOMAIN backups \cup {BackupPath(clock)} |->
                                IF p = BackupPath(clock) THEN file ELSE backups[p]]
                       ELSE backups
         /\ frame' = [error_types |-> error_types, backup |-> backup,
                      before |-> file, wb |-> NoWorkbook, visited |-> <<>>,
                      results |-> InitialResults(IF backup THEN <<BackupPath(clock)>> ELSE <<>>)]
         /\ pc' = "load"
         /\ toolResult' = NoToolResult
         /\ UNCHANGED <<file, last>>

\* a tool that goes on to repair on a dry run
EarlyReturnIgnoresDryRun(validate_first, dry_run, pre_validation) ==
    IF validate_first /\ ~has_errors(pre_validation) THEN "success" ELSE "none"

\* repair_workbook_errors lines 44-59: the status of the return taken before
\* repair_errors is called, "none" when the tool goes on to repair
EarlyReturn(validate_first, dry_run, pre_validation) ==
    IF validate_first /\ ~has_errors(pre_validation) THEN "success"
    ELSE IF dry_run THEN "dry_run"
    ELSE "none"

\* repair_workbook_errors lines 36-66 for given arguments: the existence
\* check, the optional pre-validation (pre_validation is the report
\* validate_workbook(filepath) gives), the dry run, and the call of
\* repair_errors
ToolCallWith(validate_first, dry_run, pre_validation) ==
    /\ pc = "idle"
    /\ IF file.st = "missing"
       THEN /\ toolResult' = Raised("FileNotFoundError")
            /\ UNCHANGED <<file, backups, pc, frame, last>>
       ELSE IF EarlyReturn(validate_first, dry_run, pre_validation) # "none"
       THEN /\ toolResult' = Returned(EarlyReturn(validate_first, dry_run, pre_validation))
            /\ UNCHANGED <<file, backups, pc, frame, last>>
       ELSE \E error_types \in ErrorTypeChoices, backup \in BOOLEAN :
            \E copyFails \in IF backup THEN BOOLEAN ELSE {FALSE} :
                RepairEnter(error_types, backup, copyFails)
    /\ UNCHANGED <<clock, scan, agent, call, refCall, lockVars, addr, callVars>>

\* the report of validate_workbook(filepath) on the file as it is
PreValidation(libreoffice) == validate_workbook(file, "auto", libreoffice).report

ToolCall ==
    \E validate_first \in BOOLEAN, dry_run \in BOOLEAN :
    \E libreoffice \in IF validate_first THEN BOOLEAN ELSE {FALSE} :
        ToolCallWith(validate_first, dry_run, PreValidation(libreoffice)[1])

\* repair_errors lines 621-649: load_workbook and the repair loop on the
\* loaded workbook; a failed load is recorded in results["error"]
RepairLoad ==
    /\ pc = "load"
    /\ IF CanLoad(file)
       THEN /\ frame' = [frame EXCEPT
                            !.wb = WorkbookAfterLoop(frame.error_types, load_workbook(file)),
                            !.visited = RepairVisits(frame.error_types, load_workbook(file)),
                            !.results = ResultsAfterLoop(frame.results, frame.error_types,
                                                         load_workbook(file))]
            /\ pc' = "save"
       ELSE /\ frame' = [frame EXCEPT !.results.error = "load"]
            /\ pc' = "return"
    /\ UNCHANGED <<file, backups, clock, last, toolResult, scan, agent, call, refCall, lockVars, addr, callVars>>

\* repair_errors lines 651-657: wb.save(filepath); a save that fails (the
\* file cannot be opened for writing) is recorded in results["error"] and
\* leaves the file as it was
RepairSave ==
    /\ pc = "save"
    /\ \E saved \in BOOLEAN :
           /\ file' = IF saved THEN SaveWorkbook(frame.wb) ELSE file
           /\ frame' = IF saved THEN frame ELSE [frame EXCEPT !.results.error = "save"]
    /\ pc' = "return"
    /\ UNCHANGED <<backups, clock, last, toolResult, scan, agent, call, refCall, lockVars, addr, callVars>>

\* a final status that ignores the post-repair count
FinalStatusAlwaysPartial(post) == "partial_success"

\* repair_workbook_errors lines 68-83: the post-repair validation and the
\* final status
FinalStatus(post) == IF post.total_errors = 0 THEN "success" ELSE "partial_success"

ToolPost ==
    /\ pc = "return"
    /\ \E libreoffice \in BOOLEAN :
           LET post == validate_workbook(file, "auto", libreoffice).report[1]
               status == FinalStatus(post)
           IN  toolResult' =
                   [status |-> status, raised |-> "none", exit_code |-> ExitCode(status),
                    repaired |-> TRUE, post |-> <<post>>,
                    remaining_errors |-> IF status = "success" THEN <<>>
                                         ELSE <<post.total_errors>>]
    /\ last' = Run(frame.error_types, frame.results.error)
    /\ frame' = NoFrame
    /\ pc' = "idle"
    /\ UNCHANGED <<file, backups, clock, scan, agent, call, refCall, lockVars, addr, callVars>>

Init == file \in RepairFiles /\ InitFile /\ InitAgent

Next == ToolCall \/ RepairLoad \/ RepairSave \/ ToolPost

Spec == Init /\ [][Next]_vars

(***************************************************************************)
(* The validation engine alone, over the initial workbooks.                *)
(***************************************************************************)
InitScan == file \in InitialFiles /\ InitFile /\ InitAgent

NextScan == Validate

SpecScan == InitScan /\ [][NextScan]_vars

(***************************************************************************)
(* An agent adding formulas to its workbook.                               *)
(***************************************************************************)
AgentSheetLists == {<<Sheet1>>, <<Sheet1, Data>>, <<Sheet1, MySheet>>}

AddFormula ==
    /\ ~call.done
    /\ \E sheet \in {Sheet1, Nope}, formula \in Formulas,
          validate_refs \in BOOLEAN, allow_external \in BOOLEAN :
       \E ref \in validate_formula_references(
                      sanitize_formula(formula, allow_external).formula, agent.sheetnames) :
           LET r == add_formula(agent, sheet, CellA1, formula, validate_refs,
                                allow_external, ref)
           IN  /\ agent' = r.wb
               /\ call' = [done |-> TRUE, sheet |-> sheet, cell |-> CellA1,
                           formula |-> formula, validate_refs |-> validate_refs,
                           allow_external |-> allow_external, before |-> agent,
                           outcome |-> r.outcome]
    /\ UNCHANGED <<file, backups, clock, pc, frame, last, toolResult, scan, refCall, lockVars, addr, callVars>>

\* the workbooks an agent may hold when add_formula is called: the target
\* cell is empty or already holds a formula
AgentWorkbooks ==
    {AgentWorkbook(sheetnames) : sheetnames \in AgentSheetLists}
    \cup {set_cell_value(AgentWorkbook(sheetnames), Sheet1, CellA1, <<"=">> \o F_Sum,
                         STYLE_FORMULA) : sheetnames \in AgentSheetLists}

InitFormula ==
    /\ file = MissingFile
    /\ InitFile
    /\ agent \in AgentWorkbooks
    /\ call = NoCall
    /\ refCall = NoRefCall

NextFormula == AddFormula

SpecFormula == InitFormula /\ [][NextFormula]_vars

(***************************************************************************)
(* validate_formula_references applied to formulas and sheet lists.        *)
(***************************************************************************)
ValidateRefs ==
    /\ ~refCall.done
    /\ \E result \in validate_formula_references(refCall.formula, refCall.sheets) :
           refCall' = [refCall EXCEPT !.done = TRUE, !.result = result]
    /\ UNCHANGED <<file, backups, clock, pc, frame, last, toolResult, scan, agent, call, lockVars, addr, callVars>>

InitRefs ==
    /\ file = MissingFile
    /\ InitFile
    /\ agent = AgentWorkbook(<<Sheet1>>)
    /\ call = NoCall
    /\ refCall \in {[NoRefCall EXCEPT !.formula = f, !.sheets = sh] :
                       f \in Formulas, sh \in SheetLists}

NextRefs == ValidateRefs

SpecRefs == InitRefs /\ [][NextRefs]_vars

(***************************************************************************)
(* Scans and repairs of workbooks of two sheets, the first with more than  *)
(* one row.                                                                *)
(***************************************************************************)
\* a constant first, then formulas, and a second sheet of one formula
OrderFiles ==
    {WorkbookFile(<<[name |-> Sheet1,
                     cells |-> [i \in 1..MaxCells |-> IF i = 1 THEN Const10 ELSE FDiv0]],
                    [name |-> Data, cells |-> <<c>>]>>) : c \in {FDiv0, FSum}}

InitOrder == file \in OrderFiles /\ InitFile /\ InitAgent

NextOrder == Validate \/ ToolCall \/ RepairLoad \/ RepairSave \/ ToolPost

SpecOrder == InitOrder /\ [][NextOrder]_vars

(***************************************************************************)
(* FileLock.  The sentinel file is created with touch(exist_ok=False) and  *)
(* removed with unlink(missing_ok=True); both are single file-system       *)
(* operations.  The acquired flag belongs to one instance and is written   *)
(* in the same step as the file operation it follows.  The timeout of      *)
(* acquire is counted in attempts, the passes of the running loop that     *)
(* found the sentinel: the loop makes at least one pass and at most        *)
(* MaxAttempts.                                                            *)
(***************************************************************************)
\* FileLock.__init__
FreshLock(owner) ==
    [acquired |-> FALSE, pc |-> "idle", attempts |-> 0, result |-> "none",
     via |-> "none", raised |-> "none", owner |-> owner]

\* the instance as acquire starts: start_time = time.time()
Acquiring(lock, via) ==
    [lock EXCEPT !.pc = "acquiring", !.attempts = 0, !.result = "none",
                 !.via = via, !.raised = "none"]

\* a touch that succeeds although the sentinel file exists
TouchOverwrites(lf, i) == [created |-> TRUE, lockfile |-> i]

\* self.lockfile.touch(exist_ok=False)
Touch(lf, i) ==
    IF lf = 0 THEN [created |-> TRUE, lockfile |-> i] ELSE [created |-> FALSE, lockfile |-> lf]

\* FileLock.release: the instance and the sentinel file after the call
ReleaseLock(lock, lf) ==
    IF lock.acquired
    THEN [lock |-> [lock EXCEPT !.acquired = FALSE], lockfile |-> 0]
    ELSE [lock |-> lock, lockfile |-> lf]

\* a call of acquire(), directly or through __enter__, on an instance that
\* no agent owns
AcquireCall(i) ==
    /\ locks[i].pc = "idle"
    /\ locks[i].owner = 0
    /\ \E via \in {"acquire", "enter"} :
           locks' = [locks EXCEPT ![i] = Acquiring(@, via)]
    /\ UNCHANGED <<lockfile, agents, fileVars, formulaVars, addr, callVars>>

\* one pass of the loop of acquire: the touch, and either the return of True
\* or the sleep
AcquireAttempt(i) ==
    /\ locks[i].pc = "acquiring"
    /\ locks[i].attempts < MaxAttempts
    /\ LET t == Touch(lockfile, i)
       IN  /\ lockfile' = t.lockfile
           /\ locks' = IF t.created
                       THEN [locks EXCEPT ![i].acquired = TRUE, ![i].result = "true",
                                          ![i].pc = "idle", ![i].attempts = 0]
                       ELSE [locks EXCEPT ![i].attempts = @ + 1]
    /\ UNCHANGED <<agents, fileVars, formulaVars, addr, callVars>>

\* an __enter__ that returns although acquire returned False
EnterSwallows(via) == "none"

\* what the caller of a failed acquire raises: __enter__ raises FileLockError
EnterRaises(via) == IF via = "enter" THEN "FileLockError" ELSE "none"

\* the loop condition fails: acquire returns False.  With the timeout of
\* 10 seconds that every caller uses the first pass is always made.
AcquireTimeout(i) ==
    /\ locks[i].pc = "acquiring"
    /\ locks[i].attempts >= 1
    /\ locks' = [locks EXCEPT ![i].result = "false", ![i].pc = "idle", ![i].attempts = 0,
                              ![i].raised = EnterRaises(locks[i].via)]
    /\ UNCHANGED <<lockfile, agents, fileVars, formulaVars, addr, callVars>>

\* a call of release(), directly or through __exit__, on an instance that
\* no agent owns
Release(i) ==
    /\ locks[i].pc = "idle"
    /\ locks[i].owner = 0
    /\ locks' = [locks EXCEPT ![i] = ReleaseLock(locks[i], lockfile).lock]
    /\ lockfile' = ReleaseLock(locks[i], lockfile).lockfile
    /\ UNCHANGED <<agents, fileVars, formulaVars, addr, callVars>>

(***************************************************************************)
(* ExcelAgent used as a context manager: __enter__, any calls of open,     *)
(* add_financial_input and save in the block, and __exit__, which runs     *)
(* close on a normal exit and on an exception alike.                       *)
(***************************************************************************)
\* ExcelAgent.__init__: no workbook, no lock
NewAgent ==
    [pc |-> "new", lock |-> 0, wb |-> <<>>, opens |-> 0, raised |-> "none"]

\* the value that add_financial_input writes, as a loaded cell and as saved
InputCell == [data_type |-> "n", value |-> <<"4", "2">>, is_str |-> FALSE]
InputFileCell == SaveCell(InputCell)

\* ExcelAgent.close, run by __exit__: the agent, the FileLock instances and
\* the sentinel file after it
Close(ag, lks, lf) ==
    IF ag.lock # 0
    THEN [agent |-> [ag EXCEPT !.wb = <<>>, !.lock = 0, !.pc = "exited"],
          locks |-> [lks EXCEPT ![ag.lock] = ReleaseLock(lks[ag.lock], lf).lock],
          lockfile |-> ReleaseLock(lks[ag.lock], lf).lockfile]
    ELSE [agent |-> [ag EXCEPT !.wb = <<>>, !.pc = "exited"], locks |-> lks, lockfile |-> lf]

\* an exception leaves the with-block: __exit__ closes the agent and the
\* exception propagates
AgentRaise(a, exc) ==
    LET c == Close([agents[a] EXCEPT !.raised = exc], locks, lockfile)
    IN  /\ agents' = [agents EXCEPT ![a] = c.agent]
        /\ locks' = c.locks
        /\ lockfile' = c.lockfile

\* ExcelAgent.__enter__
AgentEnter(a) ==
    /\ agents[a].pc = "new"
    /\ agents' = [agents EXCEPT ![a].pc = "block"]
    /\ UNCHANGED <<lockfile, locks, fileVars, formulaVars, addr, callVars>>

\* self.wb = load_workbook(filepath) in open; a failure raises out of the
\* block
AgentLoad(a, ags) ==
    IF CanLoad(file)
    THEN /\ agents' = [ags EXCEPT ![a].wb = <<load_workbook(file)>>, ![a].pc = "block"]
         /\ UNCHANGED <<lockfile, locks>>
    ELSE LET c == Close([ags[a] EXCEPT !.raised = "InvalidFileException"], locks, lockfile)
         IN  /\ agents' = [ags EXCEPT ![a] = c.agent]
             /\ locks' = c.locks
             /\ lockfile' = c.lockfile

\* ExcelAgent.open up to the call of acquire: the existence check, and with
\* acquire_lock a new FileLock assigned to self._lock
AgentOpen(a, acquire_lock) ==
    /\ agents[a].pc = "block"
    /\ agents[a].opens < MaxOpens
    /\ IF file.st = "missing"
       THEN AgentRaise(a, "FileNotFoundError")
       ELSE IF acquire_lock
       THEN /\ locks' = Append(locks, Acquiring(FreshLock(a), "open"))
            /\ agents' = [agents EXCEPT ![a].lock = Len(locks) + 1, ![a].pc = "opening",
                                        ![a].opens = @ + 1]
            /\ UNCHANGED lockfile
       ELSE AgentLoad(a, [agents EXCEPT ![a].opens = @ + 1])
    /\ UNCHANGED <<fileVars, formulaVars, addr, callVars>>

\* ExcelAgent.open after acquire returned: FileLockError, or the load
AgentOpened(a) ==
    /\ agents[a].pc = "opening"
    /\ locks[agents[a].lock].pc = "idle"
    /\ IF locks[agents[a].lock].result = "false"
       THEN AgentRaise(a, "FileLockError")
       ELSE AgentLoad(a, agents)
    /\ UNCHANGED <<fileVars, formulaVars, addr, callVars>>

\* agent.add_financial_input in the block: set_cell_value on the first cell
\* of the first sheet; without a workbook get_sheet raises
AgentWrite(a) ==
    /\ agents[a].pc = "block"
    /\ IF agents[a].wb = <<>>
       THEN AgentRaise(a, "ExcelAgentError")
       ELSE /\ agents' = [agents EXCEPT ![a].wb[1][1].cells[1] = InputCell]
            /\ UNCHANGED <<lockfile, locks>>
    /\ UNCHANGED <<fileVars, formulaVars, addr, callVars>>

\* agent.save in the block: wb.save(self.filepath); without a workbook it
\* raises
AgentSave(a) ==
    /\ agents[a].pc = "block"
    /\ IF agents[a].wb = <<>>
       THEN /\ AgentRaise(a, "ExcelAgentError")
            /\ UNCHANGED file
       ELSE /\ file' = SaveWorkbook(agents[a].wb[1])
            /\ UNCHANGED <<lockfile, locks, agents>>
    /\ UNCHANGED <<backups, clock, pc, frame, last, toolResult, scan, formulaVars, addr, callVars>>

\* the end of the with-block, or an exception raised by the code in it
AgentExit(a) ==
    /\ agents[a].pc = "block"
    /\ \E exc \in {"none", "ValueError"} : AgentRaise(a, exc)
    /\ UNCHANGED <<fileVars, formulaVars, addr, callVars>>

\* FileLock instances of other processes and one ExcelAgent with-block
\* working on the same workbook file
LockFile == WorkbookFile(<<[name |-> Sheet1, cells |-> <<Const10>>]>>)

InitLock ==
    /\ file \in {LockFile, CorruptFile, MissingFile}
    /\ InitRepair
    /\ InitAgent
    /\ lockfile = 0
    /\ locks = [i \in 1..NLocks |-> FreshLock(0)]
    /\ agents = <<NewAgent>>
    /\ addr = NoAddr
    /\ InitCalls

LockStep ==
    \E i \in DOMAIN locks : AcquireCall(i) \/ AcquireAttempt(i) \/ AcquireTimeout(i) \/ Release(i)

AgentStep ==
    \E a \in DOMAIN agents :
        \/ AgentEnter(a)
        \/ \E acquire_lock \in BOOLEAN : AgentOpen(a, acquire_lock)
        \/ AgentOpened(a)
        \/ AgentWrite(a)
        \/ AgentSave(a)
        \/ AgentExit(a)

NextLock == LockStep \/ AgentStep

SpecLock == InitLock /\ [][NextLock]_vars

\* repair_workbook_errors and the add-financial-input tool, each in its own
\* process, working on the same workbook file
MutateFile == WorkbookFile(<<[name |-> Sheet1, cells |-> <<Const10, FDiv0>>]>>)

InitMutate ==
    /\ file = MutateFile
    /\ InitRepair
    /\ InitAgent
    /\ lockfile = 0
    /\ locks = NoLocks
    /\ agents = <<NewAgent>>
    /\ addr = NoAddr
    /\ InitCalls

\* the workbook of the agent holds the financial input
Written(ag) == ag.wb # <<>> /\ ag.wb[1][1].cells[1] = InputCell

\* excel_add_financial_input.add_financial_input lines 49-63: the with-block
\* with one agent.open(filepath) (acquire_lock defaults to True), then the
\* sheet check, agent.add_financial_input and agent.save; an exception at
\* any of them leaves the block
AddFinancialInput ==
    \E a \in DOMAIN agents :
        \/ AgentEnter(a)
        \/ agents[a].opens = 0 /\ AgentOpen(a, TRUE)
        \/ AgentOpened(a)
        \/ agents[a].opens = 1 /\ ~Written(agents[a]) /\ AgentWrite(a)
        \/ Written(agents[a]) /\ file # SaveWorkbook(agents[a].wb[1]) /\ AgentSave(a)
        \/ agents[a].opens = 1 /\ AgentExit(a)

\* the passes of the acquire that open started
OpenAcquire == \E i \in DOMAIN locks : AcquireAttempt(i) \/ AcquireTimeout(i)

NextMutate ==
    ToolCall \/ RepairLoad \/ RepairSave \/ ToolPost \/ AddFinancialInput \/ OpenAcquire

SpecMutate == InitMutate /\ [][NextMutate]_vars

\* every FileLock instance a behaviour can create
LockIds == 1..(NLocks + MaxOpens)

\* a running acquire is not suspended forever: touch and sleep return and
\* the clock advances
FairAcquire ==
    \A i \in LockIds :
        WF_vars(i \in DOMAIN locks /\ (AcquireAttempt(i) \/ AcquireTimeout(i)))

SpecLockFair == SpecLock /\ FairAcquire

(***************************************************************************)
(* Cell and range references.                                              *)
(***************************************************************************)
\* the value of a decimal digit and of a column letter (A = 1 .. Z = 26)
DigitValue(c) == (CHOOSE i \in DOMAIN DigitChars : DigitChars[i] = c) - 1
LetterValue(c) == CHOOSE i \in DOMAIN UpperChars : UpperChars[i] = c

IsUpperLetter(c) == c \in Range(UpperChars)
IsDigit(c) == c \in Range(DigitChars)

\* the length of the longest run of characters of s from position i (1-based)
\* that are in the set chars
RECURSIVE RunLength(_, _, _)
RunLength(s, i, chars) ==
    IF i <= Len(s) /\ s[i] \in chars THEN 1 + RunLength(s, i + 1, chars) ELSE 0

\* re.match(r'^[A-Z]{lo,hi}\d{lo2,hi2}$', s): greedy runs of letters and of
\* digits with backtracking over their lengths; $ matches at the end of the
\* text and also just before a newline that ends the text
MatchLettersDigits(s, maxLetters, maxDigits) ==
    \E k \in 1..maxLetters, m \in 1..maxDigits :
        /\ k + m <= Len(s)
        /\ \A i \in 1..k : IsUpperLetter(s[i])
        /\ \A i \in (k + 1)..(k + m) : IsDigit(s[i])
        /\ \/ Len(s) = k + m
           \/ Len(s) = k + m + 1 /\ s[Len(s)] = "\n"

is_valid_cell_reference(ref) ==
    IF ref = <<>> THEN FALSE ELSE MatchLettersDigits(Upper(ref), 3, 7)

\* int(row_str) on a text of decimal digits
RECURSIVE int(_)
int(digits) ==
    IF digits = <<>> THEN 0
    ELSE 10 * int(SubSeq(digits, 1, Len(digits) - 1)) + DigitValue(digits[Len(digits)])

\* openpyxl.utils.column_index_from_string on upper-case letters
RECURSIVE column_index_from_string(_)
column_index_from_string(letters) ==
    IF letters = <<>> THEN 0
    ELSE 26 * column_index_from_string(SubSeq(letters, 1, Len(letters) - 1))
         + LetterValue(letters[Len(letters)])

InvalidCellReference == AddrResult("InvalidCellReferenceError", 0, 0, <<>>, <<>>, <<>>)

get_cell_coordinates(cell_ref) ==
    IF ~is_valid_cell_reference(cell_ref)
    THEN InvalidCellReference
    ELSE LET u == Upper(cell_ref)
             k == RunLength(u, 1, Range(UpperChars))
             m == RunLength(u, k + 1, Range(DigitChars))
         IN  IF ~MatchLettersDigits(u, Len(u), Len(u))
             THEN InvalidCellReference
             ELSE LET col_num == column_index_from_string(SubSeq(u, 1, k))
                      row_num == int(SubSeq(u, k + 1, k + m))
                  IN  IF row_num > EXCEL_MAX_ROWS \/ col_num > EXCEL_MAX_COLS
                      THEN InvalidCellReference
                      ELSE AddrResult("none", row_num, col_num, <<>>, <<>>, <<>>)

\* positional base 26 with a zero digit (A = 0)
RECURSIVE ColumnLetterWithZero(_)
ColumnLetterWithZero(col_idx) ==
    IF col_idx < 26 THEN <<UpperChars[col_idx + 1]>>
    ELSE ColumnLetterWithZero(col_idx \div 26) \o <<UpperChars[(col_idx % 26) + 1]>>

\* the loop of openpyxl's column letter computation: divmod by 26, and a
\* remainder of 0 is the digit Z with a borrow
RECURSIVE ColumnLetters(_)
ColumnLetters(col_idx) ==
    IF col_idx <= 0 THEN <<>>
    ELSE IF col_idx % 26 = 0
    THEN ColumnLetters((col_idx \div 26) - 1) \o <<UpperChars[26]>>
    ELSE ColumnLetters(col_idx \div 26) \o <<UpperChars[col_idx % 26]>>

openpyxl_get_column_letter(col_idx) == ColumnLetters(col_idx)

get_column_letter(col_num) ==
    IF ~(1 <= col_num /\ col_num <= EXCEL_MAX_COLS)
    THEN AddrResult("ValueError", 0, 0, <<>>, <<>>, <<>>)
    ELSE AddrResult("none", 0, 0, openpyxl_get_column_letter(col_num), <<>>, <<>>)

\* the position of the first occurrence of character c in s, 0 if none
FirstIndex(s, c) ==
    IF \E i \in DOMAIN s : s[i] = c
    THEN CHOOSE i \in DOMAIN s : s[i] = c /\ \A j \in 1..(i - 1) : s[j] # c
    ELSE 0

\* s.split(c, 1)[1] when c occurs in s
AfterFirst(s, c) == SubSeq(s, FirstIndex(s, c) + 1, Len(s))

\* s.split(c, 1)[0] when c occurs in s
BeforeFirst(s, c) == SubSeq(s, 1, FirstIndex(s, c) - 1)

parse_range(range_ref) ==
    LET ref == IF FirstIndex(range_ref, "!") # 0 THEN AfterFirst(range_ref, "!") ELSE range_ref
    IN  IF FirstIndex(ref, ":") = 0
        THEN AddrResult("none", 0, 0, <<>>, ref, ref)
        ELSE AddrResult("none", 0, 0, <<>>, BeforeFirst(ref, ":"), AfterFirst(ref, ":"))

\* the texts given to get_cell_coordinates: a column part, a row part and an
\* optional line end, and texts of another shape
ColumnTexts ==
    {<<"A">>,
     <<"Z">>,
     <<"A", "A">>,
     <<"A", "Z">>,
     <<"X", "F", "D">>,
     <<"X", "F", "E">>,
     <<"Z", "Z", "Z">>,
     <<"a">>,
     <<"x", "f", "d">>,
     <<"x", "F", "e">>,
     <<>>,
     <<"A", "A", "A", "A">>}
RowTexts ==
    {<<"0">>,
     <<"1">>,
     <<"9">>,
     <<"1", "0">>,
     <<"1", "0", "4", "8", "5", "7", "6">>,
     <<"1", "0", "4", "8", "5", "7", "7">>,
     <<"0", "0", "0", "0", "0", "0", "0">>,
     <<"0", "0", "0", "0", "0", "0", "1">>,
     <<"9", "9", "9", "9", "9", "9", "9">>,
     <<"0", "1", "0", "4", "8", "5", "7", "6">>,
     <<"1", "0", "4", "8", "5", "7", "6", "0">>,
     <<>>}
EndTexts == {<<>>, <<"\n">>}
OtherTexts ==
    {<<"1", "A">>,
     <<"A", "-", "1">>,
     <<"A", " ", "1">>,
     <<" ", "A", "1">>,
     <<"A", "1", " ">>,
     <<"$", "A", "$", "1">>,
     <<"A", "1", ":", "B", "2">>,
     <<"A", "1", "\n", "\n">>,
     <<"\n", "A", "1">>,
     <<"A", ".", "1">>}
CellTexts == {c \o r \o e : c \in ColumnTexts, r \in RowTexts, e \in EndTexts} \cup OtherTexts

\* the numbers given to get_column_letter
ColumnNumbers == {-1, 0, 1, 26, 27, 702, 703, 16384, 16385, 18278, 18279}

\* the texts given to parse_range: a cell text or a range, with or without a
\* sheet qualifier
RangeCells ==
    {<<"A", "1">>,
     <<"B", "2">>,
     <<"X", "F", "D", "1", "0", "4", "8", "5", "7", "6">>,
     <<"a", "1">>,
     <<"A", "0">>,
     <<>>}
SheetQualifiers ==
    {<<"S", "h", "e", "e", "t", "1">>,
     <<"D", "a", "t", "a">>,
     <<"'", "M", "y", " ", "S", "h", "e", "e", "t", "'">>,
     <<"'", "Q", "1", "!", "'">>,
     <<"'", "a", ":", "b", "'">>,
     <<>>}
RangeBodies ==
    RangeCells
    \cup {x \o <<":">> \o y : x, y \in RangeCells}
    \cup {<<"A", "1", ":", "B", "2", ":", "C", "3">>}
RangeTexts == RangeBodies \cup {q \o <<"!">> \o b : q \in SheetQualifiers, b \in RangeBodies}

GetCellCoordinates ==
    /\ ~addr.done
    /\ \E text \in CellTexts :
           addr' = [done |-> TRUE, op |-> "get_cell_coordinates", text |-> text, n |-> 0,
                    result |-> get_cell_coordinates(text)]
    /\ UNCHANGED <<fileVars, formulaVars, lockVars, callVars>>

GetColumnLetter ==
    /\ ~addr.done
    /\ \E n \in ColumnNumbers :
           addr' = [done |-> TRUE, op |-> "get_column_letter", text |-> <<>>, n |-> n,
                    result |-> get_column_letter(n)]
    /\ UNCHANGED <<fileVars, formulaVars, lockVars, callVars>>

\* get_cell_coordinates(get_column_letter(n) + '1')
ColumnRoundTrip ==
    /\ ~addr.done
    /\ \E n \in 1..EXCEL_MAX_COLS :
           addr' = [done |-> TRUE, op |-> "round_trip", text |-> get_column_letter(n).text, n |-> n,
                    result |-> get_cell_coordinates(get_column_letter(n).text \o <<"1">>)]
    /\ UNCHANGED <<fileVars, formulaVars, lockVars, callVars>>

ParseRange ==
    /\ ~addr.done
    /\ \E text \in RangeTexts :
           addr' = [done |-> TRUE, op |-> "parse_range", text |-> text, n |-> 0,
                    result |-> parse_range(text)]
    /\ UNCHANGED <<fileVars, formulaVars, lockVars, callVars>>

InitAddr ==
    /\ file = MissingFile
    /\ InitFile
    /\ InitAgent

NextAddr == GetCellCoordinates \/ GetColumnLetter \/ ColumnRoundTrip \/ ParseRange

SpecAddr == InitAddr /\ [][NextAddr]_vars

(***************************************************************************)
(* sanitize_formula and sanitize_sheet_name as functions of their text.    *)
(***************************************************************************)
\* formula bodies and, for each, the warnings of the threat signatures it
\* was written to contain, in the order of the table of sanitize_formula
ThreatInputs ==
    {[body |-> <<"S", "U", "M", "(", "A", "1", ":", "A", "1", "0", ")">>, threats |-> <<>>],
     [body |-> <<"A", "1", "+", "B", "2">>, threats |-> <<>>],
     [body |-> <<>>, threats |-> <<>>],
     [body |-> <<"S", "h", "e", "e", "t", "1", "!", "A", "1", "+", "D", "a", "t", "a", "!", "B", "2">>, threats |-> <<>>],
     [body |-> <<"'", "M", "y", " ", "S", "h", "e", "e", "t", "'", "!", "A", "1">>, threats |-> <<>>],
     [body |-> <<"W", "E", "B", "S", "E", "R", "V", "I", "C", "E", "(", "\"", "h", "t", "t", "p", ":", "/", "/", "x", "\"", ")">>, threats |-> <<"WEBSERVICE function (network access)">>],
     [body |-> <<"w", "e", "b", "s", "e", "r", "v", "i", "c", "e", " ", "(", "\"", "h", "t", "t", "p", ":", "/", "/", "x", "\"", ")">>, threats |-> <<"WEBSERVICE function (network access)">>],
     [body |-> <<"W", "e", "b", "S", "e", "r", "v", "i", "c", "e", "\t", "(", "A", "1", ")">>, threats |-> <<"WEBSERVICE function (network access)">>],
     [body |-> <<"W", "E", "B", "S", "E", "R", "V", "I", "C", "E">>, threats |-> <<>>],
     [body |-> <<"W", "E", "B", "S", "E", "R", "V", "I", "C", "E", " ", "A", "1", " ", "(">>, threats |-> <<>>],
     [body |-> <<"H", "Y", "P", "E", "R", "L", "I", "N", "K", "(", "A", "1", ")">>, threats |-> <<"HYPERLINK function (potential phishing)">>],
     [body |-> <<"h", "y", "p", "e", "r", "l", "i", "n", "k", " ", "(", "N", "o", "p", "e", "!", "A", "1", ")">>, threats |-> <<"HYPERLINK function (potential phishing)">>],
     [body |-> <<"C", "A", "L", "L", "(", "1", ")">>, threats |-> <<"CALL function (external DLL execution)">>],
     [body |-> <<"c", "a", "l", "l", " ", " ", "(", "1", ")">>, threats |-> <<"CALL function (external DLL execution)">>],
     [body |-> <<"R", "E", "C", "A", "L", "L", "(", "1", ")">>, threats |-> <<"CALL function (external DLL execution)">>],
     [body |-> <<"C", "A", "L", "L", "S", "(", "1", ")">>, threats |-> <<>>],
     [body |-> <<"[", "b", ".", "x", "l", "s", "x", "]", "D", "a", "t", "a", "!", "A", "1">>, threats |-> <<"External workbook reference">>],
     [body |-> <<"[", "m", "y", " ", "b", "o", "o", "k", ".", "X", "L", "S", "M", "]", "S", "!", "A", "1">>, threats |-> <<"External workbook reference">>],
     [body |-> <<"[", "b", "-", "1", ".", "x", "l", "s", "x", "]", "S", "!", "A", "1">>, threats |-> <<>>],
     [body |-> <<"[", ".", "x", "l", "s", "]", "S", "!", "A", "1">>, threats |-> <<>>],
     [body |-> <<"b", ".", "x", "l", "s", "x">>, threats |-> <<>>],
     [body |-> <<"I", "N", "D", "I", "R", "E", "C", "T", "(", "H", "Y", "P", "E", "R", "L", "I", "N", "K", "(", "A", "1", ")", ")">>, threats |-> <<"HYPERLINK function (potential phishing)", "INDIRECT+HYPERLINK combination (security risk)">>],
     [body |-> <<"i", "n", "d", "i", "r", "e", "c", "t", " ", "(", "A", "1", ")", "+", "h", "y", "p", "e", "r", "l", "i", "n", "k", "(", "B", "1", ")">>, threats |-> <<"HYPERLINK function (potential phishing)", "INDIRECT+HYPERLINK combination (security risk)">>],
     [body |-> <<"I", "N", "D", "I", "R", "E", "C", "T", "(", "A", "1", ")", "&", "H", "Y", "P", "E", "R", "L", "I", "N", "K">>, threats |-> <<"INDIRECT+HYPERLINK combination (security risk)">>],
     [body |-> <<"H", "Y", "P", "E", "R", "L", "I", "N", "K", "(", "I", "N", "D", "I", "R", "E", "C", "T", "(", "A", "1", ")", ")">>, threats |-> <<"HYPERLINK function (potential phishing)">>],
     [body |-> <<"I", "N", "D", "I", "R", "E", "C", "T", "(", "A", "1", ")">>, threats |-> <<>>],
     [body |-> <<"W", "E", "B", "S", "E", "R", "V", "I", "C", "E", "(", "C", "A", "L", "L", "(", "[", "b", ".", "x", "l", "s", "]", "S", "!", "A", "1", ")", ")">>, threats |-> <<"WEBSERVICE function (network access)", "CALL function (external DLL execution)", "External workbook reference">>],
     [body |-> <<"C", "A", "L", "L", "(", "H", "Y", "P", "E", "R", "L", "I", "N", "K", "(", "W", "E", "B", "S", "E", "R", "V", "I", "C", "E", "(", "A", "1", ")", ")", ")">>, threats |-> <<"WEBSERVICE function (network access)", "HYPERLINK function (potential phishing)", "CALL function (external DLL execution)">>],
     [body |-> <<" ", "=", "A", "1">>, threats |-> <<>>],
     [body |-> <<"=", "=", "A", "1">>, threats |-> <<>>],
     [body |-> <<"'", "=", "C", "A", "L", "L", "(", "1", ")">>, threats |-> <<"CALL function (external DLL execution)">>]}

\* a text of n copies of the character c
Repeat(c, n) == [i \in 1..n |-> c]

\* bodies around the length ceiling and around the nesting ceiling
LimitInputs ==
    {[body |-> b, threats |-> <<>>] :
        b \in {Repeat("1", MAX_FORMULA_LENGTH - 2), Repeat("1", MAX_FORMULA_LENGTH - 1),
               Repeat("1", MAX_FORMULA_LENGTH), Repeat("1", MAX_FORMULA_LENGTH + 1),
               Repeat("(", MAX_FORMULA_NESTING), Repeat("(", NestingRun),
               Repeat(")", MAX_FORMULA_NESTING), Repeat(")", NestingRun),
               Repeat("(", NestingRun) \o Repeat(")", 1),
               Repeat("(", NestingRun) \o Repeat(")", NestingRun)}}
    \cup {[body |-> <<"C", "A", "L", "L", "(">> \o Repeat("(", MAX_FORMULA_LENGTH),
           threats |-> <<"CALL function (external DLL execution)">>]}

\* each body is given as it is and with a leading '='
SanitizeInputs ==
    {[text |-> p \o i.body, threats |-> i.threats] :
        p \in {<<>>, <<"=">>}, i \in ThreatInputs \cup LimitInputs}

SanitizeFormula ==
    /\ ~textCall.done
    /\ \E i \in SanitizeInputs, allow_external \in BOOLEAN :
           textCall' = [done |-> TRUE, op |-> "sanitize_formula", text |-> i.text,
                        allow_external |-> allow_external,
                        out |-> sanitize_formula(i.text, allow_external).formula,
                        warnings |-> sanitize_formula(i.text, allow_external).warnings]
    /\ UNCHANGED <<fileVars, formulaVars, lockVars, addr, reportCall, rangeCall>>

\* the longest sheet name
SHEET_NAME_LENGTH == 31

\* invalid_chars of is_valid_sheet_name, the list of sanitize_sheet_name
InvalidSheetChars == {":", "\\", "/", "?", "*", "[", "]"}

is_valid_sheet_name(name) ==
    IF name = <<>> \/ Len(name) > SHEET_NAME_LENGTH
    THEN FALSE
    ELSE ~\E i \in DOMAIN name : name[i] \in InvalidSheetChars

\* a sanitizer that does not cut the name
sanitize_sheet_name_NoCut(name) ==
    IF name = <<>> THEN Sheet1
    ELSE [i \in DOMAIN name |-> IF name[i] \in InvalidSheetChars THEN "_" ELSE name[i]]

\* sanitize_sheet_name: the default for an empty name, '_' for each invalid
\* character, name[:31], and the default again if nothing is left
sanitize_sheet_name(name) ==
    IF name = <<>> THEN Sheet1
    ELSE LET replaced == [i \in DOMAIN name |->
                             IF name[i] \in InvalidSheetChars THEN "_" ELSE name[i]]
             cut == IF Len(replaced) > SHEET_NAME_LENGTH
                    THEN SubSeq(replaced, 1, SHEET_NAME_LENGTH)
                    ELSE replaced
         IN  IF cut = <<>> THEN Sheet1 ELSE cut

\* the names given to sanitize_sheet_name: every text of at most two of the
\* characters below, and texts around the length limit
NameChars == {"a", "_", " ", "'", "!"} \cup InvalidSheetChars
ShortNames == {<<>>} \cup {<<c>> : c \in NameChars} \cup {<<c, d>> : c, d \in NameChars}
LongNames ==
    {Repeat("a", n) \o t : n \in (SHEET_NAME_LENGTH - 2)..(SHEET_NAME_LENGTH + 1),
                           t \in {<<>>, <<":">>, <<"/", "b">>, <<"[", "]", "?">>}}
    \cup {Repeat(c, SHEET_NAME_LENGTH + 9) : c \in NameChars}
SheetNames == ShortNames \cup LongNames

SanitizeSheetName ==
    /\ ~textCall.done
    /\ \E name \in SheetNames :
           textCall' = [done |-> TRUE, op |-> "sanitize_sheet_name", text |-> name,
                        allow_external |-> FALSE, out |-> sanitize_sheet_name(name),
                        warnings |-> <<>>]
    /\ UNCHANGED <<fileVars, formulaVars, lockVars, addr, reportCall, rangeCall>>

InitText ==
    /\ file = MissingFile
    /\ InitFile
    /\ InitAgent

NextText == SanitizeFormula \/ SanitizeSheetName

SpecText == InitText /\ [][NextText]_vars

(***************************************************************************)
(* validate_formulas (src/tools/excel_validate_formulas.py).  The report   *)
(* object and the output of to_dict hold the same error_summary dict, so   *)
(* what the tool assigns into the entries of the output's error_summary is *)
(* read back through the report object.                                    *)
(***************************************************************************)
SHOWN_LOCATIONS == 5

\* the body of the loop over result["error_summary"].items(), acting on one
\* entry in place
CutDetails(details) ==
    IF "locations" \in DOMAIN details
    THEN LET cut == SubSeq(details.locations, 1,
                           IF Len(details.locations) < SHOWN_LOCATIONS
                           THEN Len(details.locations) ELSE SHOWN_LOCATIONS)
             count == IF "count" \in DOMAIN details THEN details.count ELSE 0
         IN  IF Len(cut) < count
             THEN [k \in DOMAIN details \cup {"truncated"} |->
                      IF k = "truncated" THEN TRUE
                      ELSE IF k = "locations" THEN cut
                      ELSE details[k]]
             ELSE [details EXCEPT !.locations = cut]
    ELSE details

\* the error_summary dict after the tool's loop over its entries
CutSummary(error_summary) ==
    [k \in DOMAIN error_summary |-> CutDetails(error_summary[k])]

\* ValidationReport.to_dict: a new dict whose "error_summary" is the report's
\* own error_summary
to_dict(report) ==
    [status |-> report.status, total_errors |-> report.total_errors,
     total_formulas |-> report.total_formulas, error_summary |-> report.error_summary,
     validation_method |-> report.validation_method]

\* result["summary"]
SummaryLine(report) ==
    IF has_errors(report)
    THEN [errors_found |-> TRUE, total_errors |-> report.total_errors,
          total_formulas |-> report.total_formulas]
    ELSE [errors_found |-> FALSE, total_errors |-> 0,
          total_formulas |-> report.total_formulas]

\* validate_formulas(filepath, method, timeout, detailed): the exception it
\* raises or, when it returns, the report as validate_workbook built it, the
\* report object as it is when the function returns, and the output
validate_formulas(f, method, libreoffice, detailed) ==
    IF f.st = "missing"
    THEN [NoReportCall EXCEPT !.done = TRUE, !.detailed = detailed,
                              !.raised = "FileNotFoundError"]
    ELSE IF validate_workbook(f, method, libreoffice).raised # "none"
    THEN [NoReportCall EXCEPT !.done = TRUE, !.detailed = detailed,
                              !.raised = validate_workbook(f, method, libreoffice).raised]
    ELSE LET built == validate_workbook(f, method, libreoffice).report[1]
             shared == IF detailed THEN built.error_summary
                       ELSE CutSummary(built.error_summary)
             report == [built EXCEPT !.error_summary = shared]
         IN  [done |-> TRUE, detailed |-> detailed, raised |-> "none",
              built |-> <<built>>, report |-> <<report>>,
              result |-> <<[out |-> to_dict(report), file |-> "filepath",
                            summary |-> SummaryLine(report)]>>]

\* workbooks of more formulas with a stored error than the output shows
LongFiles ==
    {WorkbookFile(<<[name |-> Sheet1, cells |-> cs]>>) :
        cs \in [1..(SHOWN_LOCATIONS + 1) -> {FDiv0, FRef}]}

ValidateFormulas ==
    /\ ~reportCall.done
    /\ \E method \in Methods, libreoffice \in BOOLEAN, detailed \in BOOLEAN :
           reportCall' = validate_formulas(file, method, libreoffice, detailed)
    /\ UNCHANGED <<fileVars, formulaVars, lockVars, addr, textCall, rangeCall>>

InitReport == file \in InitialFiles \cup LongFiles /\ InitFile /\ InitAgent

NextReport == ValidateFormulas

SpecReport == InitReport /\ [][NextReport]_vars

(***************************************************************************)
(* ExcelAgent.apply_range_formula and ExcelAgent.format_range on a sheet   *)
(* of the agent's workbook.  A worksheet is the map from (row, column) to  *)
(* the cells that exist; ws.cell(row, column) creates a missing cell.      *)
(***************************************************************************)
\* str(n) for n >= 0
RECURSIVE IntText(_)
IntText(n) ==
    IF n < 10 THEN <<DigitChars[n + 1]>>
    ELSE IntText(n \div 10) \o <<DigitChars[(n % 10) + 1]>>

\* s.replace(old, new)
RECURSIVE Replace(_, _, _)
Replace(s, old, new) ==
    IF Len(s) < Len(old) THEN s
    ELSE IF SubSeq(s, 1, Len(old)) = old
    THEN new \o Replace(Drop(s, Len(old)), old, new)
    ELSE <<s[1]>> \o Replace(Drop(s, 1), old, new)

WsCell(value, number_format) == [value |-> value, number_format |-> number_format]

\* ws.cell(row=row, column=col): the cell, created empty when it is missing
CellAt(ws, rc) == IF rc \in DOMAIN ws THEN ws[rc] ELSE WsCell(<<>>, "General")

\* the formula apply_range_formula writes at (row, col)
FormulaAt(formula_template, row, col) ==
    LET f1 == Replace(formula_template, <<"{", "r", "o", "w", "}">>, IntText(row))
        f2 == Replace(f1, <<"{", "c", "o", "l", "}">>, get_column_letter(col).text)
        f3 == Replace(f2, <<"{", "c", "e", "l", "l", "}">>,
                      get_column_letter(col).text \o IntText(row))
    IN  IF StartsWith(f3, <<"=">>) THEN f3 ELSE <<"=">> \o f3

\* the (row, col) pairs the two nested loops visit:
\* for row in range(start_row, end_row + 1): for col in range(start_col, end_col + 1)
LoopCells(start, end) ==
    {<<row, col>> : row \in start.row..end.row, col \in start.col..end.col}

RangeResult(raised, count, ws) == [raised |-> raised, count |-> count, ws |-> ws]

\* what a range operation does up to its loops: get_sheet, parse_range and
\* the two get_cell_coordinates calls; the exception raised, if any
RangeRaises(sheetnames, sheet, range_ref) ==
    IF sheet \notin Range(sheetnames) THEN "KeyError"
    ELSE IF get_cell_coordinates(parse_range(range_ref).start).raised # "none"
    THEN get_cell_coordinates(parse_range(range_ref).start).raised
    ELSE get_cell_coordinates(parse_range(range_ref).end).raised

apply_range_formula(sheetnames, ws, sheet, range_ref, formula_template) ==
    IF RangeRaises(sheetnames, sheet, range_ref) # "none"
    THEN RangeResult(RangeRaises(sheetnames, sheet, range_ref), 0, ws)
    ELSE LET cells == LoopCells(get_cell_coordinates(parse_range(range_ref).start),
                                get_cell_coordinates(parse_range(range_ref).end))
         IN  RangeResult("none", Cardinality(cells),
                 [rc \in DOMAIN ws \cup cells |->
                     IF rc \in cells
                     THEN [CellAt(ws, rc) EXCEPT
                              !.value = FormulaAt(formula_template, rc[1], rc[2])]
                     ELSE ws[rc]])

format_range(sheetnames, ws, sheet, range_ref, number_format) ==
    IF RangeRaises(sheetnames, sheet, range_ref) # "none"
    THEN RangeResult(RangeRaises(sheetnames, sheet, range_ref), 0, ws)
    ELSE LET cells == LoopCells(get_cell_coordinates(parse_range(range_ref).start),
                                get_cell_coordinates(parse_range(range_ref).end))
         IN  RangeResult("none", Cardinality(cells),
                 [rc \in DOMAIN ws \cup cells |->
                     IF rc \in cells
                     THEN [CellAt(ws, rc) EXCEPT !.number_format = number_format]
                     ELSE ws[rc]])

\* the worksheet the operations start from: B2 holds 10, B3 a formula
StartSheet ==
    [rc \in {<<2, 2>>, <<3, 2>>} |->
        IF rc = <<2, 2>> THEN WsCell(<<"1", "0">>, "General")
        ELSE WsCell(<<"=", "B", "2">>, "0.00")]

\* the range texts, formula templates and number formats of the calls
Corners ==
    {<<"A", "1">>, <<"B", "2">>, <<"B", "1", "0">>, <<"C", "3">>, <<"a", "2">>}
OpRanges ==
    Corners
    \cup {x \o <<":">> \o y : x, y \in Corners}
    \cup {<<"S", "h", "e", "e", "t", "1", "!">> \o x \o <<":">> \o y :
             x, y \in {<<"B", "2">>, <<"C", "3">>}}
    \cup {<<"A", "1", ":">>, <<":", "B", "2">>, <<"A", "1", ":", "X", "F", "E", "1">>,
          <<"A", "0", ":", "A", "1">>}
Templates ==
    {<<"=", "A", "{", "r", "o", "w", "}", "*", "2">>,
     <<"{", "c", "o", "l", "}", "{", "r", "o", "w", "}", "+", "{", "c", "e", "l", "l", "}">>}
NumberFormats == {"0.00", "$#,##0"}

ApplyRangeFormula ==
    /\ ~rangeCall.done
    /\ \E sheet \in {Sheet1, Nope}, range_ref \in OpRanges, formula_template \in Templates :
           LET r == apply_range_formula(agent.sheetnames, StartSheet, sheet, range_ref,
                                        formula_template)
           IN  rangeCall' = [done |-> TRUE, op |-> "apply_range_formula", sheet |-> sheet,
                             range_ref |-> range_ref, arg |-> formula_template,
                             raised |-> r.raised, count |-> r.count,
                             before |-> StartSheet, after |-> r.ws]
    /\ UNCHANGED <<fileVars, formulaVars, lockVars, addr, textCall, reportCall>>

FormatRange ==
    /\ ~rangeCall.done
    /\ \E sheet \in {Sheet1, Nope}, range_ref \in OpRanges, number_format \in NumberFormats :
           LET r == format_range(agent.sheetnames, StartSheet, sheet, range_ref, number_format)
           IN  rangeCall' = [done |-> TRUE, op |-> "format_range", sheet |-> sheet,
                             range_ref |-> range_ref, arg |-> number_format,
                             raised |-> r.raised, count |-> r.count,
                             before |-> StartSheet, after |-> r.ws]
    /\ UNCHANGED <<fileVars, formulaVars, lockVars, addr, textCall, reportCall>>

InitRange == file = MissingFile /\ InitFile /\ InitAgent

NextRange == ApplyRangeFormula \/ FormatRange

SpecRange == InitRange /\ [][NextRange]_vars

(***************************************************************************)
(* Repairs of one workbook while the clock advances.  The backup path      *)
(* carries datetime.now() formatted %Y%m%d_%H%M%S, so two calls within one *)
(* second compute the same path.                                           *)
(***************************************************************************)
MaxClock == 1

\* a second passes
Tick ==
    /\ clock < MaxClock
    /\ clock' = clock + 1
    /\ UNCHANGED <<file, backups, pc, frame, last, toolResult, scan, formulaVars, lockVars,
                   addr, callVars>>

InitBackup == file \in RepairFiles /\ InitFile /\ InitAgent

NextBackup == ToolCall \/ RepairLoad \/ RepairSave \/ ToolPost \/ Tick

SpecBackup == InitBackup /\ [][NextBackup]_vars

(***************************************************************************)
(* What the file holds, read directly from the file model: the oracle the  *)
(* properties of a scan are stated against.                                *)
(***************************************************************************)
RECURSIVE FileCellsFrom(_, _)
FileCellsFrom(f, s) ==
    IF s > Len(f.sheets) THEN <<>>
    ELSE [i \in DOMAIN f.sheets[s].cells |->
             [location |-> f.sheets[s].name \o <<"!">> \o Coordinate(i),
              cell |-> f.sheets[s].cells[i]]]
         \o FileCellsFrom(f, s + 1)

FileCells(f) == FileCellsFrom(f, 1)

\* the locations of the formula cells whose cached value is e, in visiting order
CachedLocations(f, e) ==
    LET Hit(x) == x.cell.hasF /\ x.cell.v = e
        hits == SelectSeq(FileCells(f), Hit)
    IN  [i \in DOMAIN hits |-> hits[i].location]

FormulaCount(f) == Cardinality({i \in DOMAIN FileCells(f) : FileCells(f)[i].cell.hasF})

CachedErrorCount(f) ==
    Cardinality({i \in DOMAIN FileCells(f) :
                    FileCells(f)[i].cell.hasF /\ FileCells(f)[i].cell.v \in ERROR_VALUES})

\* a scan of a readable workbook has returned its report
ScanReturned == scan.method # "none" /\ scan.raised = "none" /\ CanLoad(file)

(***************************************************************************)
(* C1.  A scan reports an error for exactly the formula cells whose cached *)
(* value is one of the seven sentinels: per sentinel, the count is the     *)
(* number of such cells and the locations are theirs, in visiting order;   *)
(* total_errors is their number.  The code compares the formula text, not  *)
(* the cached value, so a cached #DIV/0! is not reported.                  *)
(***************************************************************************)
C1_ScanCountsCachedErrors ==
    ScanReturned =>
        LET r == scan.report[1]
        IN  /\ r.total_formulas = FormulaCount(file)
            /\ r.total_errors = CachedErrorCount(file)
            /\ \A e \in ERROR_VALUES :
                   IF CachedLocations(file, e) = <<>>
                   THEN e \notin DOMAIN r.error_summary
                   ELSE /\ e \in DOMAIN r.error_summary
                        /\ r.error_summary[e].count = Len(CachedLocations(file, e))
                        /\ r.error_summary[e].locations = CachedLocations(file, e)

(***************************************************************************)
(* What repair_errors did to the file, read from the file model.           *)
(***************************************************************************)
\* the formula of a file cell: whether it has one, and its text
FormulaOf(c) == [hasF |-> c.hasF, f |-> c.f]

\* the formulas of a file, cell by cell
FormulaTexts(f) ==
    [s \in DOMAIN f.sheets |->
        [i \in DOMAIN f.sheets[s].cells |-> FormulaOf(f.sheets[s].cells[i])]]

\* what a cell holds for its user: the formula, or the constant
Content(c) == IF c.hasF THEN [hasF |-> TRUE, f |-> c.f] ELSE [hasF |-> FALSE, f |-> c.v]

\* the file holds a formula that repair_errors wrapped
HasWrapped(f) ==
    \E s \in DOMAIN f.sheets : \E i \in DOMAIN f.sheets[s].cells :
        /\ f.sheets[s].cells[i].hasF
        /\ StartsWith(f.sheets[s].cells[i].f, IFERROR \o <<"(">>)

\* repair_errors has run to its return statement on a readable workbook
RepairReturning == pc = "return" /\ CanLoad(frame.before)

(***************************************************************************)
(* C2.  repair_errors rewrites a formula cell only when the cell's cached  *)
(* error is #DIV/0!, #DIV/0! is selected by error_types and the formula    *)
(* has no IFERROR wrapper; every other cell keeps its formula or constant. *)
(* The code wraps every unwrapped formula, whatever its cached value.      *)
(***************************************************************************)
C2_RepairRewritesOnlyDiv0 ==
    RepairReturning =>
        \A s \in DOMAIN file.sheets : \A i \in DOMAIN file.sheets[s].cells :
            LET b == frame.before.sheets[s].cells[i]
                a == file.sheets[s].cells[i]
            IN  Content(a) # Content(b) =>
                    /\ b.hasF
                    /\ b.v = DIV0
                    /\ SelectsDiv0(frame.error_types)
                    /\ ~Contains(Upper(b.f), IFERROR)

(***************************************************************************)
(* C3.  With backup=true, from the moment repair_errors goes on to load    *)
(* the workbook until it returns, the backup path holds a copy of the file *)
(* as it was when repair_errors was called and backup_file records that    *)
(* path; the file is still the original when the load begins; and a step   *)
(* on which the copy fails changes neither the file nor the backups and    *)
(* does not enter the repair.                                              *)
(***************************************************************************)
C3_BackupHeld ==
    pc \in {"load", "save", "return"} =>
        /\ pc = "load" => file = frame.before
        /\ frame.backup =>
               /\ BackupPath(clock) \in DOMAIN backups
               /\ backups[BackupPath(clock)] = frame.before
               /\ frame.results.backup_file = <<BackupPath(clock)>>
        /\ ~frame.backup => frame.results.backup_file = <<>>

C3_CopyFailureStops ==
    toolResult'.raised = "OSError" => file' = file /\ backups' = backups /\ pc' = "idle"

C3_BackupBeforeMutation == []C3_BackupHeld /\ [][C3_CopyFailureStops]_vars

\* a repair with a backup has changed the file; the backup holds the original
C3_Witness ==
    /\ pc = "return"
    /\ frame.backup
    /\ file # frame.before
    /\ HasWrapped(file)
    /\ backups[BackupPath(clock)] = frame.before

C5_StatusFollowsRescan ==
    toolResult.repaired =>
        LET post == toolResult.post[1]
        IN  /\ post = validate_workbook_python(file)
            /\ (toolResult.status = "success") <=> (post.total_errors = 0)
            /\ toolResult.status # "success" =>
                   /\ toolResult.status = "partial_success"
                   /\ toolResult.remaining_errors = <<post.total_errors>>
            /\ toolResult.exit_code = 0 <=> toolResult.status = "success"

\* every cached error of the file is #DIV/0!, and there is one
OnlyDiv0Errors(f) ==
    /\ CanLoad(f)
    /\ CachedLocations(f, DIV0) # <<>>
    /\ \A e \in ERROR_VALUES \ {DIV0} : CachedLocations(f, e) = <<>>

C5_Div0RepairSucceeds ==
    (pc = "return" /\ pc' = "idle" /\ OnlyDiv0Errors(frame.before)
                   /\ SelectsDiv0(frame.error_types) /\ frame.results.error = "none") =>
        /\ toolResult'.repaired
        /\ toolResult'.status = "success"
        /\ toolResult'.post[1].total_errors = 0

C5_PostRepairStatus == []C5_StatusFollowsRescan /\ [][C5_Div0RepairSucceeds]_vars

\* the tool has repaired a #DIV/0! formula and reported on the re-scan
C5_Witness ==
    /\ toolResult.repaired
    /\ toolResult.status = "success"
    /\ last.error = "none"
    /\ SelectsDiv0(last.error_types)
    /\ \E s \in DOMAIN file.sheets : \E i \in DOMAIN file.sheets[s].cells :
           file.sheets[s].cells[i].f = Drop(WrapFormula(<<"=">> \o FDiv0.f), 1)
    /\ toolResult.post[1].total_formulas >= 1

(***************************************************************************)
(* What an add_formula call was given, and what the workbook holds.        *)
(***************************************************************************)
\* the warnings sanitize_formula returns for the formula of the call
CallWarnings == sanitize_formula(call.formula, call.allow_external).warnings

\* the formula as add_formula writes it
CallFormula == sanitize_formula(call.formula, call.allow_external).formula

CallTarget == <<call.sheet, call.cell>>

\* the sheet names each formula refers to, written out by hand
ExpectedRefs(f) ==
    CASE f = F_Cross -> {Sheet1, Data}
      [] f = F_Quoted -> {MySheet}
      [] f = F_LinkNope -> {Nope}
      [] f = F_External -> {Data}
      [] f = F_Literal -> {<<"x">>}
      [] f = F_TwoMissing -> {Nope, Data}
      [] OTHER -> {}

\* the reference check of the call rejects the formula
CallRefsRejected ==
    call.validate_refs /\ ~(ExpectedRefs(call.formula) \subseteq Range(call.before.sheetnames))

\* the sanitizer check of the call rejects the formula
CallSecurityRejected == CallWarnings # <<>> /\ ~call.allow_external

\* the call wrote its formula to the target cell and touched nothing else
CallWrote ==
    /\ call.outcome.raised = "none"
    /\ agent.sheetnames = call.before.sheetnames
    /\ DOMAIN agent.cells = DOMAIN call.before.cells \cup {CallTarget}
    /\ agent.cells[CallTarget] = AgentCell(CallFormula, STYLE_FORMULA)
    /\ \A k \in DOMAIN call.before.cells :
           k # CallTarget => agent.cells[k] = call.before.cells[k]

(***************************************************************************)
(* C6 as stated.  With the allow flag false and at least one warning,      *)
(* add_formula fails with SecurityError and the error lists every warning; *)
(* with the allow flag true the formula is written and its warnings are    *)
(* kept with the result of the call.                                       *)
(***************************************************************************)
C6_WarningsRejectOrAttach ==
    (call.done /\ CallWarnings # <<>>) =>
        /\ ~call.allow_external =>
               /\ call.outcome.raised = "SecurityError"
               /\ call.outcome.warnings = CallWarnings
        /\ (call.allow_external /\ ~CallRefsRejected
                                /\ call.sheet \in Range(call.before.sheetnames)) =>
               /\ CallWrote
               /\ call.outcome.warnings = CallWarnings

(***************************************************************************)
(* C6 amended.  With the allow flag false and at least one warning,        *)
(* add_formula fails with SecurityError and the error lists every warning, *)
(* in the order sanitize_formula returned them; with the allow flag true   *)
(* the formula is written (when the reference check passes and the sheet   *)
(* exists) and the warnings are dropped: the call returns nothing and no   *)
(* warning is kept.                                                        *)
(***************************************************************************)
C6_WarningsRejectOrDrop ==
    (call.done /\ CallWarnings # <<>>) =>
        /\ ~call.allow_external =>
               /\ call.outcome.raised = "SecurityError"
               /\ call.outcome.warnings = CallWarnings
        /\ (call.allow_external /\ ~CallRefsRejected
                                /\ call.sheet \in Range(call.before.sheetnames)) =>
               /\ CallWrote
               /\ call.outcome.warnings = <<>>

\* a formula with two warnings was rejected, both listed
C6_Witness ==
    /\ call.done
    /\ call.formula = F_Indirect
    /\ ~call.allow_external
    /\ call.outcome.raised = "SecurityError"
    /\ Len(call.outcome.warnings) = 2

(***************************************************************************)
(* C7.  add_formula writes the cell only if neither the sanitizer check    *)
(* nor the reference check rejected; a rejection by either leaves every    *)
(* cell of the workbook as it was; a formula that fails both checks is     *)
(* rejected with the security error; and a call that is not rejected and   *)
(* names an existing sheet writes the target cell and no other.            *)
(***************************************************************************)
C7_ChecksBeforeWrite ==
    call.done =>
        /\ CallSecurityRejected => call.outcome.raised = "SecurityError"
        /\ (~CallSecurityRejected /\ CallRefsRejected) =>
               /\ call.outcome.raised = "FormulaError"
               /\ call.outcome.ref.sheet \in
                      ExpectedRefs(call.formula) \ Range(call.before.sheetnames)
        /\ call.outcome.raised # "none" => agent = call.before
        /\ agent # call.before => ~CallSecurityRejected /\ ~CallRefsRejected
        /\ (~CallSecurityRejected /\ ~CallRefsRejected
                                  /\ call.sheet \in Range(call.before.sheetnames)) =>
               CallWrote

\* a formula that fails both checks was rejected by the sanitizer check
C7_Witness ==
    /\ call.done
    /\ call.formula = F_LinkNope
    /\ CallSecurityRejected
    /\ CallRefsRejected
    /\ call.outcome.raised = "SecurityError"
    /\ agent = call.before
    /\ CallTarget \in DOMAIN agent.cells

(***************************************************************************)
(* C8 as stated.  validate_formula_references returns valid iff every      *)
(* sheet name extracted from the formula is in sheets, and an invalid      *)
(* result names a missing sheet.                                           *)
(***************************************************************************)
C8_ValidIffAllSheetsKnown ==
    refCall.done =>
        /\ refCall.result.valid <=> (ExpectedRefs(refCall.formula) \subseteq Range(refCall.sheets))
        /\ ~refCall.result.valid =>
               refCall.result.sheet \in ExpectedRefs(refCall.formula) \ Range(refCall.sheets)

(***************************************************************************)
(* C8 amended.  For a non-empty formula, validate_formula_references       *)
(* returns valid iff every sheet name extracted from the formula is in     *)
(* sheets, and an invalid result names one of the missing sheets; the      *)
(* empty formula is invalid whatever the sheets, with the message that the *)
(* formula must be a non-empty string.                                     *)
(***************************************************************************)
C8_ValidIffAllSheetsKnownNonEmpty ==
    refCall.done =>
        IF refCall.formula = <<>>
        THEN /\ ~refCall.result.valid
             /\ refCall.result.text = "Formula must be a non-empty string"
        ELSE /\ refCall.result.valid <=>
                    (ExpectedRefs(refCall.formula) \subseteq Range(refCall.sheets))
             /\ refCall.result.valid => refCall.result.text = "None"
             /\ ~refCall.result.valid =>
                    /\ refCall.result.text = "Referenced sheet does not exist"
                    /\ refCall.result.sheet \in
                           ExpectedRefs(refCall.formula) \ Range(refCall.sheets)

\* '=Sheet1!A1+Data!B2' checked against {Sheet1} names Data
C8_Witness ==
    /\ refCall.done
    /\ refCall.formula = F_Cross
    /\ refCall.sheets = <<Sheet1>>
    /\ ~refCall.result.valid
    /\ refCall.result.sheet = Data

(***************************************************************************)
(* C9.  Every report of a scan of a readable workbook has status 'success' *)
(* iff total_errors = 0 and 'errors_found' iff total_errors > 0;           *)
(* total_errors is the sum of the counts; each count is the length of its  *)
(* location list; every key is a sentinel; total_formulas is the number of *)
(* formula cells of the file; total_errors <= total_formulas.              *)
(***************************************************************************)
C9_ReportInvariants ==
    ScanReturned =>
        LET r == scan.report[1]
        IN  /\ (r.status = "success") <=> (r.total_errors = 0)
            /\ (r.status = "errors_found") <=> (r.total_errors > 0)
            /\ r.total_errors = SumCounts(r.error_summary, DOMAIN r.error_summary)
            /\ \A k \in DOMAIN r.error_summary :
                   /\ k \in ERROR_VALUES
                   /\ r.error_summary[k].count = Len(r.error_summary[k].locations)
            /\ r.total_formulas = FormulaCount(file)
            /\ r.total_errors <= r.total_formulas

\* a report for a workbook that mixes formula cells and constants
C9_Witness ==
    /\ ScanReturned
    /\ scan.report[1].total_formulas = 2
    /\ FormulaCount(file) < Len(FileCells(file))
    /\ Len(file.sheets) = 2

(***************************************************************************)
(* C10 as stated.  validate_workbook never raises, whatever the file and   *)
(* the method, and an unreadable workbook gives a report of status 'error' *)
(* that carries the failure.                                               *)
(***************************************************************************)
C10_ScanNeverRaises ==
    scan.method # "none" =>
        /\ scan.raised = "none"
        /\ ~CanLoad(file) =>
               /\ scan.report[1].status = "error"
               /\ ErrorKey \in DOMAIN scan.report[1].error_summary

(***************************************************************************)
(* C10 amended.  For a path that exists and a method among auto,           *)
(* libreoffice and python, validate_workbook does not raise, and an        *)
(* unreadable workbook gives a report of status 'error' that carries the   *)
(* failure and counts nothing; a path that does not exist raises           *)
(* FileNotFoundError and, on an existing path, any other method raises     *)
(* ValueError.                                                             *)
(***************************************************************************)
C10_ScanOfExistingFile ==
    scan.method # "none" =>
        IF file.st = "missing" THEN scan.raised = "FileNotFoundError"
        ELSE IF scan.method \notin {"auto", "libreoffice", "python"}
        THEN scan.raised = "ValueError"
        ELSE /\ scan.raised = "none"
             /\ ~CanLoad(file) =>
                    /\ scan.report[1].status = "error"
                    /\ ErrorKey \in DOMAIN scan.report[1].error_summary
                    /\ scan.report[1].total_errors = 0
                    /\ scan.report[1].total_formulas = 0

\* the scan of a corrupt workbook has returned
C10_Witness ==
    /\ file = CorruptFile
    /\ scan.method \in {"auto", "libreoffice", "python"}
    /\ scan.raised = "none"
    /\ scan.report[1].status = "error"

(***************************************************************************)
(* The order of a walk over the cells of a file, decoded from the sheet    *)
(* names and the coordinates.                                              *)
(***************************************************************************)
IndexIn(seq, x) == CHOOSE i \in DOMAIN seq : seq[i] = x

SheetIndex(f, name) == CHOOSE k \in DOMAIN f.sheets : f.sheets[k].name = name

ColumnOf(coordinate) == IndexIn(UpperChars, coordinate[1])

RowOf(coordinate) == IndexIn(DigitChars, coordinate[2]) - 1

\* item a comes before item b: earlier sheet, or same sheet and earlier row,
\* or same row and earlier column
VisitedBefore(f, a, b) ==
    \/ SheetIndex(f, a.sheet_name) < SheetIndex(f, b.sheet_name)
    \/ /\ a.sheet_name = b.sheet_name
       /\ \/ RowOf(a.coordinate) < RowOf(b.coordinate)
          \/ /\ RowOf(a.coordinate) = RowOf(b.coordinate)
             /\ ColumnOf(a.coordinate) < ColumnOf(b.coordinate)

CellCount(f) == Len(FileCells(f))

\* the walk visits every cell of the file once, sheets in declared order and
\* each sheet row by row
RowMajorWalk(f, visited) ==
    /\ Len(visited) = CellCount(f)
    /\ \A i \in DOMAIN visited : \A j \in DOMAIN visited :
           i < j => VisitedBefore(f, visited[i], visited[j])

\* the positions at which the locations of a list were visited; 0 when never
VisitPosition(visited, location) ==
    IF \E i \in DOMAIN visited : Location(visited[i]) = location
    THEN CHOOSE i \in DOMAIN visited : Location(visited[i]) = location
    ELSE 0

Holders == {i \in DOMAIN locks : locks[i].acquired}

C12_AtMostOneHolder ==
    /\ Cardinality(Holders) <= 1
    /\ \A i \in Holders : lockfile = i

\* a step in which an instance comes to hold the lock starts with no holder
C12_AcquireAfterRelease ==
    \A i \in DOMAIN locks' :
        (locks'[i].acquired /\ (i \notin DOMAIN locks \/ ~locks[i].acquired)) =>
            /\ Holders = {}
            /\ lockfile = 0

C13_AcquireStep ==
    \A i \in DOMAIN locks :
        (locks[i].pc = "acquiring" /\ locks'[i] # locks[i]) =>
            /\ locks'[i].result # "false" => (locks'[i].result = "true" <=> lockfile = 0)
            /\ locks'[i].result = "true" => (lockfile' = i /\ locks'[i].acquired)
            /\ locks'[i].pc = "acquiring" =>
                   /\ lockfile # 0
                   /\ lockfile' = lockfile
                   /\ locks'[i].attempts = locks[i].attempts + 1
            /\ locks'[i].result = "false" =>
                   /\ locks[i].attempts >= 1
                   /\ locks'[i].acquired = locks[i].acquired
                   /\ lockfile' = lockfile
                   /\ \A j \in DOMAIN locks : j # i => locks'[j] = locks[j]

\* a False from acquire reaches the caller of __enter__ or of
\* ExcelAgent.open as FileLockError
C13_FailureSurfaces ==
    /\ \A i \in DOMAIN locks :
           (locks[i].pc = "idle" /\ locks[i].result = "false") =>
               /\ locks[i].via = "enter" => locks[i].raised = "FileLockError"
               /\ locks[i].via = "open" =>
                      \/ agents[locks[i].owner].pc = "opening"
                      \/ agents[locks[i].owner].raised = "FileLockError"
    /\ \A a \in DOMAIN agents :
           agents[a].raised = "FileLockError" =>
               \E i \in DOMAIN locks : locks[i].owner = a /\ locks[i].result = "false"

\* every acquire that started returns
C13_Terminates ==
    \A i \in LockIds :
        (i \in DOMAIN locks /\ locks[i].pc = "acquiring") ~>
            (i \in DOMAIN locks /\ locks[i].pc = "idle" /\ locks[i].result # "none")

SentinelOf(a) == lockfile # 0 /\ locks[lockfile].owner = a

\* C14: the lock is released on all exit paths: once the with-block of an
\* ExcelAgent has been left, whatever open calls were made in it (an open
\* that failed, a second open on the same agent), no sentinel file created
\* by that agent remains.
C14_NoSentinelAfterExit ==
    \A a \in DOMAIN agents : agents[a].pc = "exited" => ~SentinelOf(a)

(***************************************************************************)
(* C15                                                                     *)
(***************************************************************************)
\* agent a has loaded the workbook in its block and not yet left the block
AgentMutating(a) == agents[a].wb # <<>>

\* repair_errors has loaded the workbook and not yet saved it
RepairMutating == pc = "save"

\* the first cell of the first sheet of the file holds the financial input
HasInput(f) == CanLoad(f) /\ f.sheets[1].cells[1] = InputFileCell

\* a load-mutate-save in progress holds the lock, and no two overlap
C15_MutationsExclusive ==
    /\ \A a \in DOMAIN agents :
           AgentMutating(a) => (agents[a].lock # 0 /\ locks[agents[a].lock].acquired)
    /\ RepairMutating => (lockfile # 0 /\ \A a \in DOMAIN agents : ~AgentMutating(a))

\* a save never removes a financial input that another operation saved
C15_NoLostUpdate == HasInput(file) => HasInput(file')

\* C15: every operation that loads, mutates and saves an existing workbook
\* file (the add-financial-input write path and repair_errors) holds the
\* advisory lock from before its load until after its save, so two mutations
\* of the same file never overlap and no update is lost.
C15_LoadMutateSaveLocked == []C15_MutationsExclusive /\ [][C15_NoLostUpdate]_vars

(***************************************************************************)
(* C16 - C20: cell and range references.  The grammar and the decoded      *)
(* values below are read from the text itself, independently of the        *)
(* regular expressions of the code.                                        *)
(***************************************************************************)
IsLetter(c) == c \in Range(UpperChars) \cup Range(LowerChars)

\* the text is k letters followed by m digits and nothing else
LettersThenDigits(text, k, m) ==
    /\ Len(text) = k + m
    /\ \A i \in 1..k : IsLetter(text[i])
    /\ \A i \in (k + 1)..(k + m) : IsDigit(text[i])

\* 1-3 letters followed by 1-7 digits
CellGrammar(text) == \E k \in 1..3, m \in 1..7 : LettersThenDigits(text, k, m)

\* the number of letters a text of the grammar starts with
LetterCount(text) == CHOOSE k \in 1..3 : \E m \in 1..7 : LettersThenDigits(text, k, m)

TextColumn(text) == column_index_from_string(Upper(SubSeq(text, 1, LetterCount(text))))
TextRow(text) == int(SubSeq(text, LetterCount(text) + 1, Len(text)))

WithinGrid(row, col) ==
    /\ 1 <= row /\ row <= EXCEL_MAX_ROWS
    /\ 1 <= col /\ col <= EXCEL_MAX_COLS

CoordinatesCall == addr.op = "get_cell_coordinates"

\* C16: get_cell_coordinates succeeds for every text of 1-3 letters followed
\* by 1-7 digits (any letter case) whose row and column are within the grid
\* limits, and returns the decoded (row, column); every other text, one that
\* is one unit beyond a limit or one that is not of that form, fails with
\* InvalidCellReferenceError.
C16_CoordinatesOrError ==
    CoordinatesCall =>
        IF CellGrammar(addr.text) /\ WithinGrid(TextRow(addr.text), TextColumn(addr.text))
        THEN /\ addr.result.raised = "none"
             /\ addr.result.row = TextRow(addr.text)
             /\ addr.result.col = TextColumn(addr.text)
        ELSE addr.result.raised = "InvalidCellReferenceError"

\* C17: every (row, column) that get_cell_coordinates returns satisfies
\* 1 <= row <= 1,048,576 and 1 <= column <= 16,384; a text whose row is 0
\* fails.
C17_ReturnedWithinGrid ==
    (CoordinatesCall /\ addr.result.raised = "none") =>
        WithinGrid(addr.result.row, addr.result.col)

\* C18: for every n in 1..16384, get_cell_coordinates(get_column_letter(n) +
\* '1') returns row 1 and column n; the letters are 1 to 3 upper-case
\* letters, the digits of n in base 26 without a zero digit (A = 1, Z = 26,
\* AA = 27).
C18_ColumnRoundTrip ==
    addr.op = "round_trip" =>
        /\ addr.result.raised = "none"
        /\ addr.result.row = 1
        /\ addr.result.col = addr.n
        /\ Len(addr.text) \in 1..3
        /\ \A i \in DOMAIN addr.text : IsUpperLetter(addr.text[i])
        /\ addr.n = 1 => addr.text = <<"A">>
        /\ addr.n = 26 => addr.text = <<"Z">>
        /\ addr.n = 27 => addr.text = <<"A", "A">>

\* the last column, XFD, has made the round trip
C18_Witness ==
    /\ addr.op = "round_trip"
    /\ addr.n = EXCEL_MAX_COLS
    /\ addr.text = <<"X", "F", "D">>
    /\ addr.result.col = EXCEL_MAX_COLS

\* C19: get_column_letter(n) fails with the error kind of an invalid address,
\* the kind that get_cell_coordinates raises, for every n outside
\* [1, 16384]: 0, negative numbers, 16385.
C19_ColumnOutOfRangeKind ==
    (addr.op = "get_column_letter" /\ ~(1 <= addr.n /\ addr.n <= EXCEL_MAX_COLS)) =>
        addr.result.raised = InvalidCellReference.raised

\* C20: for every cell text X, parse_range(X) and parse_range(X:X) return
\* the same (start, end) with start = end = X, and a leading SheetName!
\* qualifier is discarded: the qualified text gives the result of the
\* unqualified one.
C20_RangeSymmetric ==
    addr.op = "parse_range" =>
        /\ addr.text \in RangeCells =>
               /\ addr.result.start = addr.text
               /\ addr.result.end = addr.text
               /\ parse_range(addr.text \o <<":">> \o addr.text) = addr.result
        /\ \A q \in SheetQualifiers, b \in RangeBodies :
               addr.text = q \o <<"!">> \o b => addr.result = parse_range(b)

(***************************************************************************)
(* C21                                                                     *)
(***************************************************************************)
\* the text is a cell reference that get_cell_coordinates accepts
ParsesAsCell(text) == get_cell_coordinates(text).raised = "none"

\* C21: parse_range parses each side of the range as a cell: it returns a
\* (start, end) pair only when both are cell references, and a range text
\* whose start or end is malformed or out of bounds ('A1:', 'A1:B2:C3')
\* fails with the invalid-address error.
C21_RangeSidesAreCells ==
    addr.op = "parse_range" =>
        IF addr.result.raised = "none"
        THEN ParsesAsCell(addr.result.start) /\ ParsesAsCell(addr.result.end)
        ELSE addr.result.raised = InvalidCellReference.raised

(***************************************************************************)
(* C22, C23: sanitize_formula                                              *)
(***************************************************************************)
SanitizeCall == textCall.op = "sanitize_formula"

StartsWithEquals(text) == Len(text) >= 1 /\ text[1] = "="

\* C22: sanitize_formula returns the input text unchanged when it already
\* starts with '=' and '=' followed by the input otherwise, whatever threats
\* it reports; the output always starts with '=', and sanitizing the output
\* again returns the same text and the same warnings.
C22_SanitizeOnlyPrefixes ==
    SanitizeCall =>
        /\ textCall.out = IF StartsWithEquals(textCall.text)
                          THEN textCall.text
                          ELSE <<"=">> \o textCall.text
        /\ StartsWithEquals(textCall.out)
        /\ sanitize_formula(textCall.out, textCall.allow_external)
               = [formula |-> textCall.out, warnings |-> textCall.warnings]

\* a text without '=' that holds a threat has been sanitized
C22_Witness ==
    /\ SanitizeCall
    /\ ~StartsWithEquals(textCall.text)
    /\ textCall.warnings # <<>>
    /\ Len(textCall.out) = Len(textCall.text) + 1

\* the signatures the sanitized text was written to contain
ExpectedThreats(text) == (CHOOSE i \in SanitizeInputs : i.text = text).threats

\* the number of occurrences of c in s
Occurrences(s, c) == Len(SelectSeq(s, LAMBDA x : x = c))

TooLong(f) == Len(f) > MAX_FORMULA_LENGTH

Imbalance(f) == Occurrences(f, "(") - Occurrences(f, ")")

TooNested(f) == Imbalance(f) > MAX_FORMULA_NESTING \/ -Imbalance(f) > MAX_FORMULA_NESTING

\* C23: the warnings of sanitize_formula are one warning for each threat
\* signature that matches (in any letter case), in table order, then one
\* length warning when the formula text is longer than 8000 characters, then
\* one nesting warning when the counts of '(' and ')' differ by more than
\* 64; so there are zero warnings exactly when no check triggers, and the
\* length and nesting checks add a warning and raise nothing.
C23_WarningsPerCheck ==
    SanitizeCall =>
        LET threats == ExpectedThreats(textCall.text)
            f == textCall.out
        IN  /\ textCall.warnings =
                   [k \in DOMAIN threats |-> Warning(threats[k], 0)]
                   \o (IF TooLong(f)
                       THEN <<Warning("Formula exceeds recommended length", Len(f))>>
                       ELSE <<>>)
                   \o (IF TooNested(f)
                       THEN <<Warning("Formula nesting depth suspicious", Imbalance(f))>>
                       ELSE <<>>)
            /\ textCall.warnings = <<>> <=> (threats = <<>> /\ ~TooLong(f) /\ ~TooNested(f))

\* one call has produced a signature warning, the length warning and the
\* nesting warning
C23_Witness ==
    /\ SanitizeCall
    /\ Len(textCall.warnings) = 3
    /\ ExpectedThreats(textCall.text) # <<>>
    /\ TooLong(textCall.out)
    /\ TooNested(textCall.out)

(***************************************************************************)
(* C24                                                                     *)
(***************************************************************************)
\* non-empty, at most 31 characters, none of : \ / ? * [ ]
ValidName(name) ==
    /\ Len(name) >= 1
    /\ Len(name) <= SHEET_NAME_LENGTH
    /\ \A i \in DOMAIN name : name[i] \notin {":", "\\", "/", "?", "*", "[", "]"}

\* C24: for every input name, sanitize_sheet_name(name) satisfies
\* is_valid_sheet_name (non-empty, at most 31 characters, none of
\* : \ / ? * [ ]), and a name that is already valid is returned unchanged.
C24_SanitizedNameValid ==
    textCall.op = "sanitize_sheet_name" =>
        /\ ValidName(textCall.out)
        /\ is_valid_sheet_name(textCall.out)
        /\ ValidName(textCall.text) <=> is_valid_sheet_name(textCall.text)
        /\ ValidName(textCall.text) => textCall.out = textCall.text

\* a name longer than 31 characters with an invalid character among the
\* first 31 has been sanitized
C24_Witness ==
    /\ textCall.op = "sanitize_sheet_name"
    /\ Len(textCall.text) > SHEET_NAME_LENGTH
    /\ \E i \in 1..SHEET_NAME_LENGTH : textCall.text[i] = "?"
    /\ textCall.out # textCall.text

(***************************************************************************)
(* C25.  When validate_formulas has returned its output, the report object *)
(* is as validate_workbook built it: its error_summary holds every         *)
(* location it held, and each count equals the length of its location      *)
(* list.                                                                   *)
(***************************************************************************)
CountsMatchLocations(report) ==
    \A k \in DOMAIN report.error_summary :
        "locations" \in DOMAIN report.error_summary[k]
            => /\ report.error_summary[k].count = Len(report.error_summary[k].locations)
               /\ "truncated" \notin DOMAIN report.error_summary[k]

\* the number of formula cells of a file that store an error value
RECURSIVE StoredErrorsFrom(_, _)
StoredErrorsFrom(cells, i) ==
    IF i > Len(cells) THEN 0
    ELSE (IF cells[i].hasF /\ cells[i].t = "e" THEN 1 ELSE 0) + StoredErrorsFrom(cells, i + 1)

FirstCorner == get_cell_coordinates(parse_range(rangeCall.range_ref).start)
SecondCorner == get_cell_coordinates(parse_range(rangeCall.range_ref).end)

MinOf(a, b) == IF a <= b THEN a ELSE b
MaxOf(a, b) == IF a <= b THEN b ELSE a

\* the rectangle spanned by two corners
Rectangle(p, q) ==
    {rc \in (MinOf(p.row, q.row)..MaxOf(p.row, q.row))
            \X (MinOf(p.col, q.col)..MaxOf(p.col, q.col)) : TRUE}

\* the cells of the sheet that differ after the call, and the cells it gave
\* the value or number format of the call
Changed == {rc \in DOMAIN rangeCall.after :
               rc \notin DOMAIN rangeCall.before \/ rangeCall.after[rc] # rangeCall.before[rc]}
Carries(rc) ==
    /\ rc \in DOMAIN rangeCall.after
    /\ IF rangeCall.op = "format_range"
       THEN rangeCall.after[rc].number_format = rangeCall.arg
       ELSE /\ StartsWithEquals(rangeCall.after[rc].value)
            /\ rangeCall.after[rc].value # CellAt(rangeCall.before, rc).value

C26_RangeRectangle ==
    (rangeCall.done /\ rangeCall.raised = "none")
        => /\ \A rc \in Rectangle(FirstCorner, SecondCorner) : Carries(rc)
           /\ Changed \subseteq Rectangle(FirstCorner, SecondCorner)
           /\ rangeCall.count = Cardinality(Rectangle(FirstCorner, SecondCorner))

(***************************************************************************)
(* C27.  A call of repair_workbook_errors on an existing file with         *)
(* dry_run true, or with validate_first true when the pre-scan finds no    *)
(* errors, returns without calling repair_errors: the file and the backups *)
(* are as before, no repair_errors call is left running, the status is     *)
(* 'dry_run' or 'success' ('success' when validate_first is true and the   *)
(* pre-scan finds nothing, 'dry_run' otherwise) and the exit code is 0.    *)
(***************************************************************************)
C27_NoRepairStep ==
    (pc = "idle" /\ file.st # "missing")
        => \A pre \in {PreValidation(libreoffice)[1] : libreoffice \in BOOLEAN} :
           \A validate_first \in BOOLEAN, dry_run \in BOOLEAN :
               (/\ dry_run \/ (validate_first /\ ~has_errors(pre))
                /\ ToolCallWith(validate_first, dry_run, pre))
                   => /\ file' = file
                      /\ backups' = backups
                      /\ pc' = "idle"
                      /\ frame' = frame
                      /\ ~toolResult'.repaired
                      /\ toolResult'.raised = "none"
                      /\ toolResult'.status =
                             (IF validate_first /\ ~has_errors(pre)
                              THEN "success" ELSE "dry_run")
                      /\ toolResult'.exit_code = 0

C27_DryRunLeavesFile == [][C27_NoRepairStep]_vars

\* a dry run has returned on a workbook that holds a formula the repair
\* would rewrite, with no backup made
C27_Witness ==
    /\ toolResult.status = "dry_run"
    /\ ~toolResult.repaired
    /\ pc = "idle"
    /\ file.st = "ok"
    /\ \E i \in DOMAIN file.sheets[1].cells : file.sheets[1].cells[i] = FDiv0
    /\ backups = NoBackups

(***************************************************************************)
(* C28.  A repair that did not complete is not reported as success: when   *)
(* repair_errors recorded a failed load or save in results['error'], or    *)
(* the post-repair scan has status 'error', the result of                  *)
(* repair_workbook_errors is not 'success' and the exit code is not 0.     *)
(***************************************************************************)
C28_IncompleteNotSuccess ==
    (/\ toolResult.repaired
     /\ last.ran
     /\ last.error # "none" \/ toolResult.post[1].status = "error")
        => /\ toolResult.status # "success"
           /\ toolResult.exit_code # 0

(***************************************************************************)
(* C29.  When several sheets a formula refers to are missing from the      *)
(* sheet list, every call of validate_formula_references with that formula *)
(* and list returns the same result, and the sheet it names is the missing *)
(* one that comes first in the formula, read left to right.                *)
(***************************************************************************)
\* the referenced sheets of the call that the sheet list lacks
MissingRefs ==
    {r \in SheetRefs(refCall.formula) : r \notin Range(refCall.sheets)}

\* the leftmost position in the formula where sheet name r is followed by "!"
\* or by "'!"
FirstMention(r) ==
    LET at == {i \in DOMAIN refCall.formula :
                  \/ MatchAt(refCall.formula, i, r \o <<"!">>)
                  \/ MatchAt(refCall.formula, i, r \o <<"'", "!">>)}
    IN  CHOOSE i \in at : \A j \in at : i <= j

C29_NamesFirstMissing ==
    (refCall.done /\ Cardinality(MissingRefs) > 1)
        => /\ validate_formula_references(refCall.formula, refCall.sheets) = {refCall.result}
           /\ ~refCall.result.valid
           /\ refCall.result.sheet \in MissingRefs
           /\ \A r \in MissingRefs : FirstMention(refCall.result.sheet) <= FirstMention(r)

(***************************************************************************)
(* C30.  A repair_errors call with backup=true writes its backup to a path *)
(* that holds no earlier backup, and no step changes or removes a backup   *)
(* that exists: every backup made, the one from before the first repair    *)
(* included, stays as it was written.                                      *)
(***************************************************************************)
C30_BackupStep ==
    /\ (pc = "idle" /\ pc' = "load" /\ frame'.backup)
           => frame'.results.backup_file[1] \notin DOMAIN backups
    /\ \A p \in DOMAIN backups : p \in DOMAIN backups' /\ backups'[p] = backups[p]

C30_BackupsKept == [][C30_BackupStep]_vars

=============================================================================
